---- MODULE Spec2Model ----
(***************************************************************************)
(* Share-code registry and access-grant protocol of the Contact Manager    *)
(* backend (src/models/User.js) together with its callers                  *)
(* (src/examples/completeExample.js), and the bounded unique-code loop of  *)
(* the share code generator utility.                                       *)
(*                                                                         *)
(* The store is the MongoDB "users" collection.  A request works on a copy *)
(* of a document loaded with findById/findOne; document.save() sends only  *)
(* the paths modified on that copy ($set for scalars, $push for the array  *)
(* elements pushed on the copy) as one atomic single-document update, and  *)
(* the unique sparse index on shareCode rejects an update that would give  *)
(* two documents the same code.  Every await on the store is one step.     *)
(*                                                                         *)
(* The second part is the contact lifecycle (src/models/Contact.js and the *)
(* contact routes): the post-save hook that creates the three default      *)
(* lists of a contact, bulk import with insertMany, and the addTask /      *)
(* addMeeting / addTransaction helpers on top of List.addItem              *)
(* (src/models/List.js).  The third part is the pure share code utility    *)
(* (src/utils/userValidator.js): generateCode, isValidCode and             *)
(* generateWithPrefix, with String.prototype.toUpperCase modelled          *)
(* character by character, including the characters whose upper case is    *)
(* two characters long, and generateBatch with its Set of codes.           *)
(*                                                                         *)
(* Further parts: the items of a list (List.addItem with its derived       *)
(* alarm, computed on the local time of the host, List.updateItem, the     *)
(* item route of the list router, List.triggerAlarm); accounts and their   *)
(* phone numbers (signup in src/routes/auth.js, the profile update);       *)
(* contact deletion and Contact.addReferral; and saves of the sharing      *)
(* protocol that the store rejects.                                        *)
(***************************************************************************)
EXTENDS Integers, Sequences, FiniteSets, TLC

\* ---------------------------------------------------------------- bounds
\* Number of operations (requests) started in one behaviour.
MaxOps == 2
\* Number of distinct indices the random source yields for the first draw
\* of a code; the other four draws of a code yield index 0.
MaxRandom == 2
\* Number of store operations of the post-save hook that fail in one behaviour.
MaxFailures == 1

Users == {"u1", "u2", "u3"}
Procs == {"p1", "p2"}
AccessLevels == {"view", "edit"}

\* ------------------------------------------------------------ code strings
consonants == <<"B","C","D","F","G","H","J","K","L","M","N","P","Q","R","S","T","V","W","X","Y","Z">>
vowels == <<"A","E","I","O","U">>

UpperLetters == <<"A","B","C","D","E","F","G","H","I","J","K","L","M","N","O","P","Q","R","S","T","U","V","W","X","Y","Z">>
LowerLetters == <<"a","b","c","d","e","f","g","h","i","j","k","l","m","n","o","p","q","r","s","t","u","v","w","x","y","z">>

Min(a, b) == IF a < b THEN a ELSE b

\* String.prototype.toUpperCase on one character and on a string
\* (a string is the sequence of its characters).
UpperChar(ch) ==
    IF \E i \in 1..Len(LowerLetters) : LowerLetters[i] = ch
    THEN UpperLetters[CHOOSE i \in 1..Len(LowerLetters) : LowerLetters[i] = ch]
    ELSE ch

\* The characters U+00DF (sharp s) and U+FB01 (ligature fi): one character
\* each, whose upper case is two characters.
SharpS == "U+00DF"
LigatureFi == "U+FB01"

\* The upper case of one character, as a string: "SS" and "FI" for the two
\* above (Unicode SpecialCasing), the upper-case letter otherwise.
UpperString(ch) ==
    CASE ch = SharpS -> <<"S", "S">>
      [] ch = LigatureFi -> <<"F", "I">>
      [] OTHER -> <<UpperChar(ch)>>

toUpperCase(s) ==
    LET up[i \in 0..Len(s)] == IF i = 0 THEN <<>> ELSE up[i - 1] \o UpperString(s[i])
    IN  up[Len(s)]

LowerChar(ch) ==
    IF \E i \in 1..Len(UpperLetters) : UpperLetters[i] = ch
    THEN LowerLetters[CHOOSE i \in 1..Len(UpperLetters) : UpperLetters[i] = ch]
    ELSE ch

toLowerCase(s) == [i \in 1..Len(s) |-> LowerChar(s[i])]

\* Math.floor(Math.random() * length) for the draw at position pos of a code.
RandomIndex(pos, length) ==
    IF pos = 1 THEN 0..(Min(MaxRandom, length) - 1) ELSE {0}

\* The CVCVC candidates one pass of the loop body can build.
CandidateCodes ==
    { <<consonants[d1 + 1], vowels[d2 + 1], consonants[d3 + 1], vowels[d4 + 1], consonants[d5 + 1]>> :
        d1 \in RandomIndex(1, Len(consonants)), d2 \in RandomIndex(2, Len(vowels)),
        d3 \in RandomIndex(3, Len(consonants)), d4 \in RandomIndex(4, Len(vowels)),
        d5 \in RandomIndex(5, Len(consonants)) }

\* Codes a caller may present to accessViaCode: any case of a candidate.
CodeInputs == CandidateCodes \cup { toLowerCase(c) : c \in CandidateCodes }

\* const maxAttempts = 100 of generateUniqueCode.
maxAttempts == 100

\* A shareWith whose default level is 'edit'.
EditAccessLevel == "edit"

\* shareWith(targetUserId, accessLevel = 'view'): the level accessViaCode
\* grants, since it passes none.
DefaultAccessLevel == "view"

\* An unset shareCode / mobileNo (undefined: falsy, absent from a sparse index).
NoCode == <<>>
NoPhone == "none"
NoUser == "nobody"

\* ------------------------------------------------------------------ state
VARIABLES
    db,        \* the users collection: id -> stored document
    pc,        \* per request slot: the await the request is suspended at
    self,      \* per request slot: the document the handler loaded (this / user)
    owner,     \* per request slot: the document accessViaCode found by code
    call,      \* per request slot: the running call, or the last one with its outcome
    nops,      \* number of calls started so far
    attempts,  \* per request slot: candidates generated by the running call
    signedUp,  \* the _ids of the documents of the users collection
    contacts,  \* the contacts collection: id -> stored document
    lists,     \* the lists collection: the documents in creation order, _id = position
    cpc,       \* per request slot: the await a contact request is suspended at
    cdoc,      \* per request slot: the contact document the handler holds in memory
    ccall,     \* per request slot: the running contact call, or the last one with its outcome
    cnops,     \* number of contact calls started so far
    failures,  \* number of store operations that have failed so far
    tz,        \* the time zone of the host
    now,       \* the clock: what Date.now() returns next
    referral,  \* the contacts collection, paths referredToBy and referrals: id -> stored value
    fn,        \* the share code utility function applied last
    arg,       \* the string it is applied to
    ret,       \* what it returned or threw
    count,     \* the argument of the running generateBatch
    codes      \* its Set of codes, in insertion order

shareVars == <<db, pc, self, owner, call, nops, attempts, signedUp>>
contactVars == <<contacts, lists, cpc, cdoc, ccall, cnops, failures, tz, now, referral>>
codeVars == <<fn, arg, ret, count, codes>>
vars == <<shareVars, contactVars, codeVars>>

\* A document as loaded in memory: the stored fields plus mongoose's change
\* tracking (modified scalar paths, number of array elements pushed).
NullDoc ==
    [id |-> NoUser, shareCode |-> NoCode, sharedWith |-> <<>>, accessingViaCode |-> <<>>,
     mobileNo |-> NoPhone, modified |-> {}, pushedShared |-> 0, pushedAccess |-> 0]

EmptyUser ==
    [shareCode |-> NoCode, sharedWith |-> <<>>, accessingViaCode |-> <<>>, mobileNo |-> NoPhone]

\* User.findById(id)
findById(u) ==
    [id |-> u, shareCode |-> db[u].shareCode, sharedWith |-> db[u].sharedWith,
     accessingViaCode |-> db[u].accessingViaCode, mobileNo |-> db[u].mobileNo,
     modified |-> {}, pushedShared |-> 0, pushedAccess |-> 0]

\* Users whose stored shareCode equals code: User.findOne({ shareCode: code })
\* returns one of them, or null when there is none.
HoldersOf(code) == { u \in Users : db[u].shareCode = code }

\* The last n elements of a sequence.
LastN(s, n) == SubSeq(s, Len(s) - n + 1, Len(s))

\* A users collection without the unique index on shareCode.
NoUniqueIndex(u, code) == FALSE

\* The unique sparse index on shareCode: would storing code on u collide?
DuplicateKey(u, code) ==
    code # NoCode /\ \E v \in Users \ {u} : db[v].shareCode = code

\* Does doc.save() fail with E11000?
SaveFails(doc) == "shareCode" \in doc.modified /\ DuplicateKey(doc.id, doc.shareCode)

\* A save that writes the whole in-memory document back instead of the changes
\* made on it.
SavedWholeDocument(doc) ==
    [db EXCEPT ![doc.id] =
        [shareCode |-> doc.shareCode, mobileNo |-> doc.mobileNo,
         sharedWith |-> doc.sharedWith, accessingViaCode |-> doc.accessingViaCode]]

\* The collection after a successful doc.save(): $set of the modified paths and
\* $push of the pushed array elements on the stored document.
SavedDb(doc) ==
    [db EXCEPT ![doc.id] =
        [shareCode |-> IF "shareCode" \in doc.modified THEN doc.shareCode ELSE @.shareCode,
         mobileNo |-> IF "mobileNo" \in doc.modified THEN doc.mobileNo ELSE @.mobileNo,
         sharedWith |-> @.sharedWith \o LastN(doc.sharedWith, doc.pushedShared),
         accessingViaCode |-> @.accessingViaCode \o LastN(doc.accessingViaCode, doc.pushedAccess)]]

\* The in-memory document after a successful save: change tracking is reset.
Saved(doc) == [doc EXCEPT !.modified = {}, !.pushedShared = 0, !.pushedAccess = 0]

\* A shareWith that does not look for an earlier grant.
neverShared(doc, targetUserId) == FALSE

\* this.sharedWith.some(share => share.userId.toString() === targetUserId.toString())
alreadyShared(doc, targetUserId) ==
    \E i \in 1..Len(doc.sharedWith) : doc.sharedWith[i].userId = targetUserId

\* An accessViaCode that does not look for an earlier redemption.
neverAccessing(doc, code) == FALSE

\* this.accessingViaCode.some(access => access.code === code.toUpperCase())
alreadyAccessing(doc, code) ==
    \E i \in 1..Len(doc.accessingViaCode) : doc.accessingViaCode[i].code = code

\* ----------------------------------------------------------------- calls
\* The record of a call: its arguments, then its outcome and the values of the
\* handler's locals when it returned.
NewCall(op, user, target, level, code) ==
    [op |-> op, user |-> user, target |-> target, level |-> level, code |-> code,
     status |-> "running", retCode |-> NoCode, retOwner |-> NoUser,
     alreadyAccessing |-> "unset", alreadyShared |-> "unset", saves |-> 0,
     mobileNo |-> NoPhone]

NoCall == [NewCall("none", NoUser, NoUser, "view", NoCode) EXCEPT !.status = "none"]

Call(p) == call[p]

\* The calls of the sharing protocol a caller may make.
SharingCalls ==
    { NewCall("generateUserShareCode", u, NoUser, "view", NoCode) : u \in Users }
    \cup { NewCall("generateShareCode", u, NoUser, "view", NoCode) : u \in Users }
    \cup { NewCall("shareDataWithUser", u, t, l, NoCode) :
                u \in Users, t \in Users, l \in AccessLevels }
    \cup { NewCall("accessDataViaCode", u, NoUser, "view", c) : u \in Users, c \in CodeInputs }

\* The calls that issue a code: the two of the model and generateUniqueCode
\* with the store's findOne by code as its checkExistence.
IssuingCalls ==
    { NewCall("generateUserShareCode", u, NoUser, "view", NoCode) : u \in Users }
    \cup { NewCall("generateShareCode", u, NoUser, "view", NoCode) : u \in Users }
    \cup { NewCall("generateUniqueCode", NoUser, NoUser, "view", NoCode) }

\* ------------------------------------------------- contacts and lists: data
ContactIds == {"c1", "c2"}
\* The accounts that own contacts and make contact requests.
ContactOwners == {"u1", "u2"}
\* The three categories of default lists, in the order the hook creates them,
\* and the field of contact.defaultLists that refers to each.
DefaultListTypes == <<"task", "meeting", "transaction">>
DefaultListFields == <<"tasks", "meetings", "transactions">>

NoContact == "nocontact"
\* An unset ObjectId reference (undefined: falsy).
NoList == 0
NoTitle == "notitle"

NoDefaultLists == [tasks |-> NoList, meetings |-> NoList, transactions |-> NoList]

\* The slot of a contact id that names no stored document.
NoContactDoc == [owner |-> NoUser, defaultLists |-> NoDefaultLists]

\* The slot of a list id whose document was deleted.
DeletedList ==
    [owner |-> NoUser, listType |-> "deleted", isDefault |-> FALSE,
     contactOwner |-> NoContact, settings |-> [defaultAlarmTime |-> 0], items |-> <<>>]

\* The referral paths of a contact nobody referred and that referred nobody.
NoReferral == [referredToBy |-> NoContact, referrals |-> <<>>]

\* No contact document in memory.
NullContact == [id |-> NoContact, owner |-> NoUser, defaultLists |-> NoDefaultLists]

\* An unset Date (undefined: falsy).  Dates are in minutes.
NoDate == 0

\* A field the body of a request does not have, and one it has.
Absent == <<>>
Present(value) == <<value>>

\* The update data of a request that updates no item: no field is present.
NoUpdate == [status |-> Absent, completedAt |-> Absent]

\* No item subdocument in memory.
NoStoredItem ==
    [title |-> NoTitle, relatedContact |-> NoContact, dueDate |-> NoDate, status |-> "pending",
     completedAt |-> NoDate, alarms |-> <<>>]

\* The record of a contact call: its arguments, then its outcome and the
\* values of the handler's locals.  created holds the _ids of the lists the
\* post-save hook has saved so far, list the _id addTask resolved, caught
\* whether the hook's catch block ran, argLists the references of the document
\* the hook was run on and retLists those of the document in the response;
\* itemId, alarmId and update are the arguments of the requests on one item,
\* edited the item subdocument as changed in memory, referredTo the body of a
\* referral request and saves the number of contact saves addReferral has
\* made.
NewContactCall(op, user, contact, listType, item, priority) ==
    [op |-> op, user |-> user, contact |-> contact, listType |-> listType,
     item |-> item, priority |-> priority, batch |-> {}, status |-> "running",
     isNew |-> FALSE, hook |-> "unset", caught |-> FALSE, created |-> <<>>,
     list |-> NoList, argLists |-> NoDefaultLists, retLists |-> NoDefaultLists,
     itemId |-> 0, alarmId |-> 0, update |-> NoUpdate, edited |-> NoStoredItem,
     referredTo |-> NoContact, saves |-> 0]

\* Item data without a title; alarms is the array the caller supplies, empty
\* when absent, and status 'pending' when absent (the schema default).
NoItem ==
    [title |-> NoTitle, relatedContact |-> NoContact, dueDate |-> NoDate,
     alarms |-> <<>>, status |-> "pending", completedAt |-> NoDate]

NoContactCall ==
    [NewContactCall("none", NoUser, NoContact, "none", NoItem, "none") EXCEPT !.status = "none"]

\* No contact request is running and none was made.
NoContactRequests ==
    /\ cpc = [p \in Procs |-> "idle"]
    /\ cdoc = [p \in Procs |-> NullContact]
    /\ ccall = [p \in Procs |-> NoContactCall]
    /\ cnops = 0
    /\ failures = 0
    /\ tz = "UTC"
    /\ now = 1

\* What a share code utility function returned (a string or a boolean) or
\* the message of the error it threw.
NoResult == [kind |-> "none", value |-> <<>>, ok |-> FALSE, message |-> "none"]
Returned(value) == [NoResult EXCEPT !.kind = "value", !.value = value]
ReturnedBool(ok) == [NoResult EXCEPT !.kind = "bool", !.ok = ok]
ThrownError(message) == [NoResult EXCEPT !.kind = "error", !.message = message]

\* No share code utility function was applied.
NoCodeCalls == fn = "none" /\ arg = <<>> /\ ret = NoResult /\ count = 0 /\ codes = <<>>

\* ------------------------------------------------------------- initial state
\* Accounts are created by signup without a share code, grants or redemptions;
\* some of them have since been given a code by generateUserShareCode, one
\* call after the other, so the codes assigned so far are distinct.
InitialCodes ==
    { f \in [Users -> CandidateCodes \cup {NoCode}] :
        \A u, v \in Users : (u # v /\ f[u] # NoCode) => f[u] # f[v] }

Init ==
    /\ \E f \in InitialCodes : db = [u \in Users |-> [EmptyUser EXCEPT !.shareCode = f[u]]]
    /\ pc = [p \in Procs |-> "idle"]
    /\ self = [p \in Procs |-> NullDoc]
    /\ owner = [p \in Procs |-> NullDoc]
    /\ call = [p \in Procs |-> NoCall]
    /\ nops = 0
    /\ attempts = [p \in Procs |-> 0]
    /\ signedUp = Users
    /\ NoContactRequests
    /\ contacts = [c \in ContactIds |-> NoContactDoc]
    /\ referral = [c \in ContactIds |-> NoReferral]
    /\ lists = <<>>
    /\ NoCodeCalls

\* ---------------------------------------------------------------- actions
\* A caller starts one of the offered calls on a free request slot.
Start(p, offered) ==
    /\ pc[p] = "idle"
    /\ nops < MaxOps
    /\ \E c \in offered : call' = [call EXCEPT ![p] = c]
    /\ nops' = nops + 1
    /\ pc' = [pc EXCEPT ![p] = "load"]
    /\ UNCHANGED <<db, self, owner, attempts, signedUp, contactVars, codeVars>>

\* The call of slot p returns or throws: rec is its record with the outcome
\* filled in.  The record kept is the outcome; the arguments target and level
\* end with the call.
Return(p, rec) ==
    /\ call' = [call EXCEPT ![p] = [rec EXCEPT !.target = NoUser, !.level = "view"]]
    /\ pc' = [pc EXCEPT ![p] = "idle"]
    /\ self' = [self EXCEPT ![p] = NullDoc]
    /\ owner' = [owner EXCEPT ![p] = NullDoc]

Ok(rec, retCode, retOwner) ==
    [rec EXCEPT !.status = "ok", !.retCode = retCode, !.retOwner = retOwner]

Thrown(rec, message) == [rec EXCEPT !.status = message]

\* An accessViaCode that returns without an error when no owner is found.
SwallowInvalidCode(p, rec) == Return(p, Ok(rec, NoCode, NoUser))

\* if (!owner) throw new Error('Invalid share code')
InvalidShareCode(p, rec) == Return(p, Thrown(rec, "Invalid share code"))

\* shareWith from the alreadyShared test on; doc is `this`, which holds a share
\* code here.  The grant is pushed and the call suspends at this.save(), or the
\* code is returned at once.  which names the variable holding doc; rec is the
\* call's record so far; retOwner is what accessViaCode returns.
ShareWithGrant(p, which, doc, targetUserId, accessLevel, rec, retOwner) ==
    LET pushed ==
            [doc EXCEPT !.sharedWith = Append(@, [userId |-> targetUserId, accessLevel |-> accessLevel]),
                        !.pushedShared = @ + 1]
    IN  IF alreadyShared(doc, targetUserId)
        THEN Return(p, Ok([rec EXCEPT !.alreadyShared = "yes"], doc.shareCode, retOwner))
        ELSE /\ call' = [call EXCEPT ![p] = [rec EXCEPT !.alreadyShared = "no"]]
             /\ pc' = [pc EXCEPT ![p] = "save_grant"]
             /\ self' = [self EXCEPT ![p] = IF which = "self" THEN pushed ELSE @]
             /\ owner' = [owner EXCEPT ![p] = IF which = "owner" THEN pushed ELSE @]

\* A caller without the has-code guard: it generates a code on every call.
neverHasShareCode(doc) == FALSE

\* The has-code guard of shareWith and generateUserShareCode.
hasShareCode(doc) == doc.shareCode # NoCode

\* User.findById(userId) at the head of every caller, and the synchronous code
\* up to the next await.
Load(p) ==
    /\ pc[p] = "load"
    /\ LET c == Call(p)
           user == IF c.user \in Users THEN findById(c.user) ELSE NullDoc
       IN  CASE c.op = "generateUserShareCode" ->
                    IF ~hasShareCode(user)
                    THEN /\ self' = [self EXCEPT ![p] = user]
                         /\ pc' = [pc EXCEPT ![p] = "generate"]
                         /\ UNCHANGED <<owner, call>>
                    ELSE Return(p, Ok(c, user.shareCode, NoUser))
             [] c.op = "generateShareCode" ->
                    /\ self' = [self EXCEPT ![p] = user]
                    /\ pc' = [pc EXCEPT ![p] = "generate"]
                    /\ UNCHANGED <<owner, call>>
             [] c.op = "shareDataWithUser" ->
                    IF ~hasShareCode(user)
                    THEN /\ self' = [self EXCEPT ![p] = user]
                         /\ pc' = [pc EXCEPT ![p] = "generate"]
                         /\ UNCHANGED <<owner, call>>
                    ELSE ShareWithGrant(p, "self", user, c.target, c.level, c, NoUser)
             [] c.op = "accessDataViaCode" ->
                    /\ self' = [self EXCEPT ![p] = user]
                    /\ pc' = [pc EXCEPT ![p] = "find_owner"]
                    /\ UNCHANGED <<owner, call>>
             [] c.op = "generateUniqueCode" ->
                    /\ pc' = [pc EXCEPT ![p] = "unique_loop"]
                    /\ UNCHANGED <<self, owner, call>>
             [] c.op = "updateProfile" ->
                    IF c.user \notin signedUp
                    THEN Return(p, Thrown(c, "User not found"))
                    ELSE /\ self' = [self EXCEPT ![p] =
                                       [user EXCEPT !.mobileNo = c.mobileNo,
                                                    !.modified = IF user.mobileNo = c.mobileNo
                                                                 THEN @ ELSE @ \cup {"mobileNo"}]]
                         /\ pc' = [pc EXCEPT ![p] = "save_profile"]
                         /\ UNCHANGED <<owner, call>>
    /\ UNCHANGED <<db, nops, attempts, signedUp, contactVars, codeVars>>

\* One pass of the while loop of generateShareCode: build a candidate, await
\* findOne({ shareCode: code }); a taken candidate repeats the loop, a free one
\* is assigned to this.shareCode and the caller goes on to this.save().
generateShareCode(p) ==
    /\ pc[p] = "generate"
    /\ \E code \in CandidateCodes :
          LET existing == HoldersOf(code) # {}
          IN  IF existing
              THEN UNCHANGED <<pc, self>>
              ELSE /\ self' = [self EXCEPT ![p] =
                                 [@ EXCEPT !.shareCode = code,
                                           !.modified = IF self[p].shareCode = code
                                                        THEN @ ELSE @ \cup {"shareCode"}]]
                   /\ pc' = [pc EXCEPT ![p] = "save_code"]
    /\ UNCHANGED <<db, owner, call, nops, signedUp, contactVars, codeVars>>

\* await this.save() after generateShareCode (shareWith, generateUserShareCode,
\* demonstrateShareCodeSystem); shareWith then goes on to the grant.  The save
\* throws when the unique index rejects the code.
SaveCode(p) ==
    /\ pc[p] = "save_code"
    /\ LET c == Call(p)
           doc == self[p]
           saved == [c EXCEPT !.saves = @ + 1]
       IN  IF SaveFails(doc)
           THEN /\ Return(p, Thrown(c, "E11000 duplicate key"))
                /\ UNCHANGED db
           ELSE /\ db' = SavedDb(doc)
                /\ IF c.op = "shareDataWithUser"
                   THEN ShareWithGrant(p, "self", Saved(doc), c.target, c.level, saved, NoUser)
                   ELSE Return(p, Ok(saved, doc.shareCode, NoUser))
    /\ UNCHANGED <<nops, attempts, signedUp, contactVars, codeVars>>

\* accessViaCode up to its first save: findOne by the uppercased code, the
\* 'Invalid share code' throw, the alreadyAccessing test and the push; when the
\* code was redeemed before, owner.shareWith(this._id) follows at once.
FindOwner(p) ==
    /\ pc[p] = "find_owner"
    /\ LET c == Call(p)
           code == toUpperCase(c.code)
           this == self[p]
       IN  IF HoldersOf(code) = {}
           THEN InvalidShareCode(p, c)
           ELSE \E o \in HoldersOf(code) :
                  IF ~alreadyAccessing(this, code)
                  THEN /\ self' = [self EXCEPT ![p] =
                                     [this EXCEPT !.accessingViaCode =
                                                      Append(@, [code |-> code, ownerId |-> o]),
                                                  !.pushedAccess = @ + 1]]
                       /\ owner' = [owner EXCEPT ![p] = findById(o)]
                       /\ pc' = [pc EXCEPT ![p] = "save_access"]
                       /\ call' = [call EXCEPT ![p].alreadyAccessing = "no"]
                  ELSE ShareWithGrant(p, "owner", findById(o), this.id, DefaultAccessLevel,
                                      [c EXCEPT !.alreadyAccessing = "yes"], o)
    /\ UNCHANGED <<db, nops, attempts, signedUp, contactVars, codeVars>>

\* await this.save() of accessViaCode ($push of the AccessRecord), then
\* owner.shareWith(this._id) on the owner document found earlier.
SaveAccess(p) ==
    /\ pc[p] = "save_access"
    /\ LET c == Call(p)
       IN  /\ db' = SavedDb(self[p])
           /\ ShareWithGrant(p, "owner", owner[p], self[p].id, DefaultAccessLevel,
                             [c EXCEPT !.saves = @ + 1], owner[p].id)
    /\ UNCHANGED <<nops, attempts, signedUp, contactVars, codeVars>>

\* await this.save() of shareWith ($push of the ShareGrant) and the return of
\* shareWith, and of accessViaCode when it made the call.
SaveGrant(p) ==
    /\ pc[p] = "save_grant"
    /\ LET c == Call(p)
           doc == IF c.op = "accessDataViaCode" THEN owner[p] ELSE self[p]
           saved == [c EXCEPT !.saves = @ + 1]
       IN  /\ db' = SavedDb(doc)
           /\ Return(p, Ok(saved, doc.shareCode,
                           IF c.op = "accessDataViaCode" THEN doc.id ELSE NoUser))
    /\ UNCHANGED <<nops, attempts, signedUp, contactVars, codeVars>>

\* One pass of the while loop of generateUniqueCode(checkExistence), or its
\* exit: the throw once attempts reaches maxAttempts without a free code, the
\* return of the code found.  attempts is the function's own counter, which
\* ends with the call.
generateUniqueCode(p) ==
    /\ pc[p] = "unique_loop"
    /\ IF attempts[p] < maxAttempts
       THEN \E code \in CandidateCodes :
               LET exists == HoldersOf(code) # {}
               IN  IF exists
                   THEN /\ attempts' = [attempts EXCEPT ![p] = @ + 1]
                        /\ UNCHANGED <<pc, self, owner, call>>
                   ELSE /\ attempts' = [attempts EXCEPT ![p] = 0]
                        /\ Return(p, Ok(Call(p), code, NoUser))
       ELSE /\ attempts' = [attempts EXCEPT ![p] = 0]
            /\ Return(p, Thrown(Call(p), "Failed to generate unique code after maximum attempts"))
    /\ UNCHANGED <<db, nops, signedUp, contactVars, codeVars>>

\* Requests interleave at every await.  Only generateUniqueCode counts its
\* attempts; the count of a request slot stays 0 otherwise.
Next ==
    \E p \in Procs :
        \/ Start(p, SharingCalls)
        \/ Load(p)
        \/ generateShareCode(p) /\ UNCHANGED attempts
        \/ SaveCode(p)
        \/ FindOwner(p)
        \/ SaveAccess(p)
        \/ SaveGrant(p)

Spec == Init /\ [][Next]_vars

\* Requests run one after the other: a call starts only when none is running.
NoneRunning == \A q \in Procs : pc[q] = "idle"

SeqNext ==
    \E p \in Procs :
        \/ NoneRunning /\ Start(p, SharingCalls)
        \/ Load(p)
        \/ generateShareCode(p) /\ UNCHANGED attempts
        \/ SaveCode(p)
        \/ FindOwner(p)
        \/ SaveAccess(p)
        \/ SaveGrant(p)

SpecSeq == Init /\ [][SeqNext]_vars

\* Code issuance, one call after the other, with the candidates of each call
\* counted: every pass of generateShareCode's loop counts one more, and the
\* count ends with the loop.  The count stops the model one past maxAttempts.
ExhaustNext ==
    \E p \in Procs :
        \/ NoneRunning /\ Start(p, IssuingCalls)
        \/ Load(p)
        \/ SaveCode(p)
        \/ /\ attempts[p] <= maxAttempts
           /\ generateShareCode(p)
           /\ attempts' = [attempts EXCEPT ![p] = IF pc'[p] = "generate" THEN @ + 1 ELSE 0]
        \/ generateUniqueCode(p)

SpecExhaust == Init /\ [][ExhaustNext]_vars

\* await doc.save() rejects because the store operation fails: nothing is
\* written, and the error propagates out of shareWith and accessViaCode to the
\* caller, which catches, logs and rethrows it.
SaveRejected(p) ==
    /\ pc[p] \in {"save_code", "save_access", "save_grant"}
    /\ failures < MaxFailures
    /\ failures' = failures + 1
    /\ Return(p, Thrown(Call(p), "store error"))
    /\ UNCHANGED <<db, nops, attempts, signedUp, contacts, lists, cpc, cdoc, ccall, cnops,
                   tz, now, referral, codeVars>>

\* The sharing requests, interleaved at every await, with saves that may fail.
RedeemNext ==
    \E p \in Procs :
        \/ Start(p, SharingCalls)
        \/ Load(p)
        \/ generateShareCode(p) /\ UNCHANGED attempts
        \/ SaveCode(p)
        \/ FindOwner(p)
        \/ SaveAccess(p)
        \/ SaveGrant(p)
        \/ SaveRejected(p)

SpecRedeem == Init /\ [][RedeemNext]_vars

TypeOK == \A p \in Procs : pc[p] \in {"idle", "load", "generate", "save_code", "find_owner",
                                     "save_access", "save_grant", "unique_loop",
                                     "find_email", "find_mobile", "save_user", "save_profile"}

\* ------------------------------------------------------------- accounts
\* The phone numbers a caller may give.
Phones == {"m1", "m2"}

\* POST /auth/signup with the email of an account id (one email per id) and
\* with or without a phone number, and PUT /profile by a signed-up user with
\* a phone number in the body.
AccountCalls ==
    { [NewCall("signup", u, NoUser, "view", NoCode) EXCEPT !.mobileNo = m] :
        u \in Users, m \in Phones \cup {NoPhone} }
    \cup { [NewCall("updateProfile", u, NoUser, "view", NoCode) EXCEPT !.mobileNo = m] :
             u \in signedUp, m \in Phones }

\* A caller starts a signup on a free request slot: the synchronous
\* validation of the body passes and the handler suspends at its first await.
SignupStart(p) ==
    /\ pc[p] = "idle"
    /\ nops < MaxOps
    /\ \E c \in { a \in AccountCalls : a.op = "signup" } : call' = [call EXCEPT ![p] = c]
    /\ nops' = nops + 1
    /\ pc' = [pc EXCEPT ![p] = "find_email"]
    /\ UNCHANGED <<db, self, owner, attempts, signedUp, contactVars, codeVars>>

\* await User.findOne({ email: email.toLowerCase() }) of signup and its 400.
FindEmail(p) ==
    /\ pc[p] = "find_email"
    /\ IF Call(p).user \in signedUp
       THEN Return(p, Thrown(Call(p), "User with this email already exists"))
       ELSE /\ pc' = [pc EXCEPT ![p] = "find_mobile"]
            /\ UNCHANGED <<self, owner, call>>
    /\ UNCHANGED <<db, nops, attempts, signedUp, contactVars, codeVars>>

\* if (mobileNo) { existingMobile = await User.findOne({ mobileNo }) ... }
ExistingMobile(mobileNo) ==
    mobileNo # NoPhone /\ \E u \in signedUp : db[u].mobileNo = mobileNo

\* The phone number check of signup and its 400; without a phone number in
\* the body the handler goes on to hash the password.
FindMobile(p) ==
    /\ pc[p] = "find_mobile"
    /\ IF ExistingMobile(Call(p).mobileNo)
       THEN Return(p, Thrown(Call(p), "User with this mobile number already exists"))
       ELSE /\ pc' = [pc EXCEPT ![p] = "save_user"]
            /\ UNCHANGED <<self, owner, call>>
    /\ UNCHANGED <<db, nops, attempts, signedUp, contactVars, codeVars>>

\* await bcrypt.hash(...), new User(userData) and await user.save() of signup:
\* the insert, which the unique index on email rejects when an account with
\* the email was inserted meanwhile.
SaveUser(p) ==
    /\ pc[p] = "save_user"
    /\ LET c == Call(p)
       IN  IF c.user \in signedUp
           THEN /\ Return(p, Thrown(c, "E11000 duplicate key"))
                /\ UNCHANGED <<db, signedUp>>
           ELSE /\ db' = [db EXCEPT ![c.user] = [EmptyUser EXCEPT !.mobileNo = c.mobileNo]]
                /\ signedUp' = signedUp \cup {c.user}
                /\ Return(p, Ok([c EXCEPT !.saves = @ + 1], NoCode, NoUser))
    /\ UNCHANGED <<nops, attempts, contactVars, codeVars>>

\* await user.save() of PUT /profile: the $set of the paths assigned from the
\* body.
SaveProfile(p) ==
    /\ pc[p] = "save_profile"
    /\ db' = SavedDb(self[p])
    /\ Return(p, Ok([Call(p) EXCEPT !.saves = @ + 1], NoCode, NoUser))
    /\ UNCHANGED <<nops, attempts, signedUp, contactVars, codeVars>>

\* The accounts signed up so far, one signup after the other: their phone
\* numbers are pairwise distinct.
InitAccounts ==
    /\ signedUp \in SUBSET Users
    /\ \E f \in [Users -> Phones \cup {NoPhone}] :
          /\ \A u \in Users : u \notin signedUp => f[u] = NoPhone
          /\ \A u, v \in Users : (u # v /\ f[u] # NoPhone) => f[u] # f[v]
          /\ db = [u \in Users |-> [EmptyUser EXCEPT !.mobileNo = f[u]]]
    /\ pc = [p \in Procs |-> "idle"]
    /\ self = [p \in Procs |-> NullDoc]
    /\ owner = [p \in Procs |-> NullDoc]
    /\ call = [p \in Procs |-> NoCall]
    /\ nops = 0
    /\ attempts = [p \in Procs |-> 0]
    /\ NoContactRequests
    /\ contacts = [c \in ContactIds |-> NoContactDoc]
    /\ referral = [c \in ContactIds |-> NoReferral]
    /\ lists = <<>>
    /\ NoCodeCalls

\* Signups and profile updates interleave at every await.
AccountsNext ==
    \E p \in Procs :
        \/ SignupStart(p)
        \/ Start(p, { a \in AccountCalls : a.op = "updateProfile" })
        \/ Load(p)
        \/ FindEmail(p)
        \/ FindMobile(p)
        \/ SaveUser(p)
        \/ SaveProfile(p)

SpecAccounts == InitAccounts /\ [][AccountsNext]_vars

\* ---------------------------------------------- contacts and lists: actions
\* enum: ['low', 'medium', 'high'] of Contact.priority
ValidPriorities == {"low", "medium", "high"}

\* settings.defaultAlarmTime of a list: minutes before the due date (default 30).
defaultAlarmTime == 30

\* List.findById(id) finds a document.
ListExists(id) == id \in 1..Len(lists) /\ lists[id] # DeletedList

\* Contact ids no stored document has and no running request has constructed
\* a document with.
FreeContactIds ==
    { c \in ContactIds :
        /\ contacts[c] = NoContactDoc
        /\ \A q \in Procs :
              ccall[q].status = "running" => (c # ccall[q].contact /\ c \notin ccall[q].batch) }

\* The item data a caller may post: a task, one with a due date that names
\* another contact as relatedContact, and one without the required title.
ItemInputs ==
    { [NoItem EXCEPT !.title = "t"],
      [NoItem EXCEPT !.title = "t", !.relatedContact = "c2", !.dueDate = 200],
      NoItem }

AddItemOps == <<"addTask", "addMeeting", "addTransaction">>

\* The requests that create and save contacts: POST /contacts with and
\* without a priority, POST /contacts/import of one or two contacts, and
\* PUT /contacts/:id.
LifecycleCalls ==
    { [NewContactCall("createContact", u, c, "none", NoItem, pr) EXCEPT !.isNew = TRUE] :
        u \in ContactOwners, c \in FreeContactIds, pr \in {"medium", "absent"} }
    \cup { [NewContactCall("importContacts", u, NoContact, "none", NoItem, "none") EXCEPT !.batch = b] :
        u \in ContactOwners, b \in (SUBSET FreeContactIds) \ {{}} }
    \cup { NewContactCall("updateContact", u, c, "none", NoItem, "none") :
        u \in ContactOwners, c \in ContactIds }

\* DELETE /contacts/:contactId/lists/:listId for the lists created so far.
DeleteListCalls ==
    { [NewContactCall("deleteList", u, c, "none", NoItem, "none") EXCEPT !.list = l] :
        u \in ContactOwners, c \in ContactIds, l \in 1..Len(lists) }

\* POST /contacts/:id/tasks, /meetings and /transactions.
ItemCalls ==
    { NewContactCall(AddItemOps[t], u, c, DefaultListTypes[t], i, "none") :
        t \in 1..3, u \in ContactOwners, c \in ContactIds, i \in ItemInputs }

\* A caller starts one of the offered requests on a free request slot; the
\* handler runs up to its first await.  Time has passed since the request
\* before.
ContactStart(p, offered) ==
    /\ cpc[p] = "idle"
    /\ cnops < MaxOps
    /\ \E c \in offered :
          /\ ccall' = [ccall EXCEPT ![p] = c]
          /\ cpc' = [cpc EXCEPT ![p] =
                        CASE c.op = "createContact" -> "save_contact"
                          [] c.op = "importContacts" -> "insert_many"
                          [] c.op = "putItem" -> "find_own_list"
                          [] c.op = "triggerAlarm" -> "trigger_alarm"
                          [] c.op = "deleteContact" -> "delete_contact"
                          [] OTHER -> "find_contact"]
          /\ cdoc' = [cdoc EXCEPT ![p] =
                        IF c.op = "createContact"
                        THEN [id |-> c.contact, owner |-> c.user, defaultLists |-> NoDefaultLists]
                        ELSE NullContact]
    /\ cnops' = cnops + 1
    /\ now' = now + 1
    /\ UNCHANGED <<contacts, lists, failures, tz, referral, shareVars, codeVars>>

\* The request of slot p responds: rec is its record with the outcome filled
\* in, doc the contact document it holds.
ContactReturn(p, rec, doc) ==
    /\ ccall' = [ccall EXCEPT ![p] = [rec EXCEPT !.retLists = doc.defaultLists]]
    /\ cpc' = [cpc EXCEPT ![p] = "idle"]
    /\ cdoc' = [cdoc EXCEPT ![p] = NullContact]

Responded(rec, status) == [rec EXCEPT !.status = status]

\* next() of the post-save hook: the save() that ran it resolves.  The
\* routes respond with success; addReferral, after its first save, goes on to
\* await Contact.findById(referredContactId).
SaveResolved(p, rec, doc) ==
    IF rec.op = "addReferral" /\ rec.saves = 1
    THEN /\ ccall' = [ccall EXCEPT ![p] = [rec EXCEPT !.created = <<>>]]
         /\ cpc' = [cpc EXCEPT ![p] = "find_referred"]
         /\ cdoc' = [cdoc EXCEPT ![p] = doc]
    ELSE ContactReturn(p, Responded(rec, "ok"), doc)

\* A hook that runs on every save.
GuardAlwaysTrue(isNew, doc) == TRUE

\* The guard of the post-save hook:
\* this.isNew || (!doc.defaultLists.tasks && !doc.defaultLists.meetings && !doc.defaultLists.transactions)
CreatesDefaultLists(isNew, doc) ==
    \/ isNew
    \/ /\ doc.defaultLists.tasks = NoList
       /\ doc.defaultLists.meetings = NoList
       /\ doc.defaultLists.transactions = NoList

\* ContactSchema.post('save'), up to its first await: the guard, then either
\* the first list is constructed and the hook suspends at tasksList.save(), or
\* next() is called and save() resolves.
PostSave(p, rec, doc) ==
    IF CreatesDefaultLists(rec.isNew, doc)
    THEN /\ ccall' = [ccall EXCEPT ![p] =
                          [rec EXCEPT !.hook = "ran", !.argLists = doc.defaultLists]]
         /\ cpc' = [cpc EXCEPT ![p] = "save_list"]
         /\ cdoc' = [cdoc EXCEPT ![p] = doc]
    ELSE SaveResolved(p, [rec EXCEPT !.hook = "skipped", !.argLists = doc.defaultLists], doc)

\* await contact.save() of POST /contacts (validation, then the insert),
\* of PUT /contacts/:id and of the list delete route (an update of the paths
\* the handler changed, none of them a default-list reference), followed by
\* the post-save hook.  save clears isNew before the post hooks run.
ContactSave(p) ==
    /\ cpc[p] = "save_contact"
    /\ LET c == ccall[p]
           doc == cdoc[p]
       IN  IF c.op = "createContact"
           THEN IF c.priority \notin ValidPriorities
                THEN /\ ContactReturn(p, Responded(c, "ValidationError"), NullContact)
                     /\ UNCHANGED contacts
                ELSE /\ contacts' = [contacts EXCEPT ![doc.id] =
                                        [owner |-> doc.owner, defaultLists |-> doc.defaultLists]]
                     /\ PostSave(p, [c EXCEPT !.isNew = FALSE], doc)
           ELSE /\ UNCHANGED contacts
                /\ PostSave(p, c, doc)
    /\ UNCHANGED <<lists, cnops, failures, tz, now, referral, shareVars, codeVars>>

\* new List({ owner: doc.owner, listType, isDefault: true, contactOwner: doc._id })
\* for the t-th category.
DefaultList(t, doc) ==
    [owner |-> doc.owner, listType |-> DefaultListTypes[t], isDefault |-> TRUE,
     contactOwner |-> doc.id, settings |-> [defaultAlarmTime |-> defaultAlarmTime],
     items |-> <<>>]

\* catch (error) { console.error(...) } and next(): the error ends the hook,
\* save() resolves and the route responds with success.
CatchAndLog(p, rec, doc) == SaveResolved(p, [rec EXCEPT !.caught = TRUE], doc)

\* await tasksList.save(), await meetingsList.save(), await
\* transactionsList.save() of the hook, one per step: the list is stored under
\* a fresh _id, or the store fails and the catch block runs.
SaveDefaultList(p) ==
    /\ cpc[p] = "save_list"
    /\ LET c == ccall[p]
           t == Len(c.created) + 1
       IN  \/ /\ lists' = Append(lists, DefaultList(t, cdoc[p]))
              /\ ccall' = [ccall EXCEPT ![p].created = Append(@, Len(lists) + 1)]
              /\ cpc' = [cpc EXCEPT ![p] = IF t = 3 THEN "update_refs" ELSE "save_list"]
              /\ UNCHANGED <<cdoc, failures>>
           \/ /\ failures < MaxFailures
              /\ failures' = failures + 1
              /\ CatchAndLog(p, c, cdoc[p])
              /\ UNCHANGED lists
    /\ UNCHANGED <<contacts, cnops, tz, now, referral, shareVars, codeVars>>

\* await Contact.updateOne({ _id: doc._id }, { $set: the three references }),
\* which changes nothing when no contact has that _id, then the same three
\* assignments on doc, next(), and the route's response.
UpdateDefaultLists(p) ==
    /\ cpc[p] = "update_refs"
    /\ LET c == ccall[p]
           doc == cdoc[p]
           refs == [tasks |-> c.created[1], meetings |-> c.created[2],
                    transactions |-> c.created[3]]
       IN  \/ /\ contacts' = [contacts EXCEPT ![doc.id] =
                                 IF @ = NoContactDoc THEN @ ELSE [@ EXCEPT !.defaultLists = refs]]
              /\ SaveResolved(p, c, [doc EXCEPT !.defaultLists = refs])
              /\ UNCHANGED failures
           \/ /\ failures < MaxFailures
              /\ failures' = failures + 1
              /\ CatchAndLog(p, c, doc)
              /\ UNCHANGED contacts
    /\ UNCHANGED <<lists, cnops, tz, now, referral, shareVars, codeVars>>

\* await Contact.insertMany(contactDocs, { ordered: false }): the documents are
\* inserted in one bulk write; insertMany runs no save middleware.
insertMany(p) ==
    /\ cpc[p] = "insert_many"
    /\ LET c == ccall[p]
       IN  /\ contacts' = [id \in ContactIds |->
                              IF id \in c.batch
                              THEN [owner |-> c.user, defaultLists |-> NoDefaultLists]
                              ELSE contacts[id]]
           /\ ContactReturn(p, Responded(c, "ok"), NullContact)
    /\ UNCHANGED <<lists, cnops, failures, tz, now, referral, shareVars, codeVars>>

\* await Contact.findOne({ _id: req.params.id, owner: req.userId }) at the head
\* of the routes on one contact, the 404 when there is none, and the handler up
\* to its next await.
FindContact(p) ==
    /\ cpc[p] = "find_contact"
    /\ LET c == ccall[p]
           stored == contacts[c.contact]
           doc == [id |-> c.contact, owner |-> stored.owner, defaultLists |-> stored.defaultLists]
       IN  IF stored = NoContactDoc \/ stored.owner # c.user
           THEN ContactReturn(p, Responded(c, "Contact not found"), NullContact)
           ELSE /\ cdoc' = [cdoc EXCEPT ![p] = doc]
                /\ cpc' = [cpc EXCEPT ![p] =
                              CASE c.op = "updateContact" -> "save_contact"
                                [] c.op = "deleteList" -> "delete_list"
                                [] c.op = "updateItem" -> "find_item_list"
                                [] c.op = "addReferral" -> "save_referrals"
                                [] OTHER -> "find_list"]
                /\ UNCHANGED ccall
    /\ UNCHANGED <<contacts, lists, cnops, failures, tz, now, referral, shareVars, codeVars>>

\* An addTask that returns nothing when it finds no list.
MissingListIgnored(p, rec, doc) == ContactReturn(p, Responded(rec, "ok"), doc)

\* if (!tasksList) throw new Error('Default tasks list not found')
DefaultListMissing(p, rec, doc) ==
    ContactReturn(p, Responded(rec, "Default list not found"), doc)

\* addTask / addMeeting / addTransaction up to the save of addItem:
\* await List.findById(this.defaultLists.<field>), the throw when it finds
\* none, then addItem pushes the item data on the list found.
FindDefaultList(p) ==
    /\ cpc[p] = "find_list"
    /\ LET c == ccall[p]
           t == CHOOSE k \in 1..3 : AddItemOps[k] = c.op
           ref == cdoc[p].defaultLists[DefaultListFields[t]]
       IN  IF ~ListExists(ref)
           THEN DefaultListMissing(p, c, cdoc[p])
           ELSE /\ ccall' = [ccall EXCEPT ![p].list = ref]
                /\ cpc' = [cpc EXCEPT ![p] = "save_item"]
                /\ UNCHANGED cdoc
    /\ UNCHANGED <<contacts, lists, cnops, failures, tz, now, referral, shareVars, codeVars>>

\* The host's time zone: UTC, or a zone whose clocks go forward by DstShift
\* minutes at DstStart (daylight-saving time begins).
TimeZones == {"UTC", "DST"}
DstStart == 100
DstShift == 60

\* LocalTime(t) of ECMAScript: the local time of the time value t.
LocalTime(t) == IF tz = "DST" /\ t >= DstStart THEN t + DstShift ELSE t

\* UTC(t) of ECMAScript: the time value of the local time t.  A local time the
\* forward shift skips is read with the offset in force before the shift.
UTC(t) == IF tz = "DST" /\ t >= DstStart + DstShift THEN t - DstShift ELSE t

\* const alarmTime = new Date(dueDate);
\* alarmTime.setMinutes(alarmTime.getMinutes() - minutes):
\* getMinutes and setMinutes work on the local time.
setMinutes(date, minutes) == UTC(LocalTime(date) - minutes)

\* An alarm subdocument as stored: isTriggered defaults to false.
StoredAlarm(alarm) ==
    [triggerTime |-> alarm.triggerTime, type |-> alarm.type,
     isTriggered |-> FALSE, triggeredAt |-> NoDate]

\* itemData.alarms after the head of addItem: the alarm derived from the due
\* date and the list's settings.defaultAlarmTime is pushed on the caller's
\* alarms ([] when absent) when both are truthy.
AlarmsOf(list, itemData) ==
    IF list.settings.defaultAlarmTime # 0 /\ itemData.dueDate # NoDate
    THEN Append(itemData.alarms,
                [triggerTime |-> setMinutes(itemData.dueDate, list.settings.defaultAlarmTime),
                 type |-> "notification"])
    ELSE itemData.alarms

\* The item addItem stores in list: { ...itemData, relatedContact: this._id }
\* with the alarms above.
StoredItem(list, itemData, contact) ==
    LET alarms == AlarmsOf(list, itemData)
    IN  [title |-> itemData.title, relatedContact |-> contact, dueDate |-> itemData.dueDate,
         status |-> itemData.status, completedAt |-> itemData.completedAt,
         alarms |-> [i \in 1..Len(alarms) |-> StoredAlarm(alarms[i])]]

\* await this.save() of List.addItem: validation of the pushed item (title is
\* required), then the $push on the stored list, which fails when the list
\* document is gone; the route responds with the item.
addItem(p) ==
    /\ cpc[p] = "save_item"
    /\ LET c == ccall[p]
       IN  IF c.item.title = NoTitle
           THEN /\ ContactReturn(p, Responded(c, "ValidationError"), cdoc[p])
                /\ UNCHANGED lists
           ELSE IF ~ListExists(c.list)
           THEN /\ ContactReturn(p, Responded(c, "DocumentNotFoundError"), cdoc[p])
                /\ UNCHANGED lists
           ELSE /\ lists' = [lists EXCEPT ![c.list].items =
                                Append(@, StoredItem(lists[c.list], c.item, cdoc[p].id))]
                /\ ContactReturn(p, Responded(c, "ok"), cdoc[p])
    /\ UNCHANGED <<contacts, cnops, failures, tz, now, referral, shareVars, codeVars>>

\* await List.findOneAndDelete({ _id: req.params.listId, owner: req.userId })
\* of the list delete route and its 404; contact.lists.pull and
\* await contact.save() follow.
findOneAndDelete(p) ==
    /\ cpc[p] = "delete_list"
    /\ LET c == ccall[p]
       IN  IF ListExists(c.list) /\ lists[c.list].owner = c.user
           THEN /\ lists' = [lists EXCEPT ![c.list] = DeletedList]
                /\ cpc' = [cpc EXCEPT ![p] = "save_contact"]
                /\ UNCHANGED <<ccall, cdoc>>
           ELSE /\ ContactReturn(p, Responded(c, "List not found"), cdoc[p])
                /\ UNCHANGED lists
    /\ UNCHANGED <<contacts, cnops, failures, tz, now, referral, shareVars, codeVars>>

\* ------------------------------------------ contacts and lists: behaviours
\* The three default lists of contact c, owned by u, as the hook stores them.
SeedLists(c, u) == [t \in 1..3 |-> DefaultList(t, [id |-> c, owner |-> u])]

\* The store after some contacts were imported and some created, one request
\* after the other and without a store failure: an imported contact has no
\* default list and no reference, a created one has its three lists.
SeedKinds == {"absent", "imported", "created"}

SeededStore(kind, own) ==
    LET n1 == IF kind["c1"] = "created" THEN 3 ELSE 0
        first == [c \in ContactIds |-> IF c = "c1" THEN 0 ELSE n1]
        doc(c) ==
            CASE kind[c] = "absent" -> NoContactDoc
              [] kind[c] = "imported" -> [owner |-> own[c], defaultLists |-> NoDefaultLists]
              [] OTHER -> [owner |-> own[c],
                           defaultLists |-> [tasks |-> first[c] + 1, meetings |-> first[c] + 2,
                                             transactions |-> first[c] + 3]]
        made(c) == IF kind[c] = "created" THEN SeedLists(c, own[c]) ELSE <<>>
    IN  /\ contacts = [c \in ContactIds |-> doc(c)]
        /\ referral = [c \in ContactIds |-> NoReferral]
        /\ lists = made("c1") \o made("c2")

SharingIdle ==
    /\ db = [u \in Users |-> EmptyUser]
    /\ pc = [p \in Procs |-> "idle"]
    /\ self = [p \in Procs |-> NullDoc]
    /\ owner = [p \in Procs |-> NullDoc]
    /\ call = [p \in Procs |-> NoCall]
    /\ nops = 0
    /\ attempts = [p \in Procs |-> 0]
    /\ signedUp = Users

InitContacts ==
    /\ \E kind \in [ContactIds -> SeedKinds], own \in [ContactIds -> ContactOwners] :
          SeededStore(kind, own)
    /\ NoContactRequests
    /\ SharingIdle
    /\ NoCodeCalls

\* Contact requests interleave at every await, and a store operation of the
\* post-save hook may fail.
ContactsNext ==
    \E p \in Procs :
        \/ ContactStart(p, LifecycleCalls)
        \/ ContactSave(p)
        \/ SaveDefaultList(p)
        \/ UpdateDefaultLists(p)
        \/ insertMany(p)
        \/ FindContact(p)

SpecContacts == InitContacts /\ [][ContactsNext]_vars

\* Requests on the items of the default lists, one after the other.
NoContactRequestRunning == \A q \in Procs : cpc[q] = "idle"

ItemsNext ==
    \E p \in Procs :
        \/ NoContactRequestRunning /\ ContactStart(p, ItemCalls \cup DeleteListCalls)
        \/ FindContact(p)
        \/ FindDefaultList(p)
        \/ addItem(p)
        \/ findOneAndDelete(p)
        \/ ContactSave(p)
        \/ SaveDefaultList(p)
        \/ UpdateDefaultLists(p)

SpecItems == InitContacts /\ [][ItemsNext]_vars

\* The crash-recovery scenario: a store seeded with contacts that have any
\* subset of their three references populated, each populated reference naming
\* the default list of its category; then the contacts are saved again through
\* PUT /contacts/:id, one request after the other.
Populated == SUBSET (1..3)

SeededPartial(own, has) ==
    LET made(c) ==
            SelectSeq(SeedLists(c, own[c]),
                      LAMBDA l : \E t \in has[c] : DefaultListTypes[t] = l.listType)
        first == [c \in ContactIds |-> IF c = "c1" THEN 0 ELSE Len(made("c1"))]
        ref(c, t) ==
            IF t \in has[c] THEN first[c] + Cardinality({k \in has[c] : k <= t}) ELSE NoList
    IN  /\ contacts = [c \in ContactIds |->
                          [owner |-> own[c],
                           defaultLists |-> [tasks |-> ref(c, 1), meetings |-> ref(c, 2),
                                             transactions |-> ref(c, 3)]]]
        /\ referral = [c \in ContactIds |-> NoReferral]
        /\ lists = made("c1") \o made("c2")

InitEnsure ==
    /\ \E own \in [ContactIds -> ContactOwners], has \in [ContactIds -> Populated] :
          SeededPartial(own, has)
    /\ NoContactRequests
    /\ SharingIdle
    /\ NoCodeCalls

UpdateCalls ==
    { NewContactCall("updateContact", u, c, "none", NoItem, "none") :
        u \in ContactOwners, c \in ContactIds }

EnsureNext ==
    \E p \in Procs :
        \/ NoContactRequestRunning /\ ContactStart(p, UpdateCalls)
        \/ FindContact(p)
        \/ ContactSave(p)
        \/ SaveDefaultList(p)
        \/ UpdateDefaultLists(p)

SpecEnsure == InitEnsure /\ [][EnsureNext]_vars

\* The elements of a sequence.
Range(s) == { s[i] : i \in 1..Len(s) }

\* ---------------------------------------------- ownership: actions
\* A delete route that deletes the default lists of the contact as well.
CascadeDelete(ls, contact) ==
    [l \in 1..Len(ls) |->
        IF ls[l].isDefault /\ ls[l].contactOwner = contact THEN DeletedList ELSE ls[l]]

\* The lists collection after DELETE /contacts/:id: the handler makes no call
\* on List, and ContactSchema has no delete middleware.
ListsAfterDelete(ls, contact) == ls

\* await Contact.findOneAndDelete({ _id: req.params.id, owner: req.userId })
\* of DELETE /contacts/:id, its 404 and its response.
deleteContact(p) ==
    /\ cpc[p] = "delete_contact"
    /\ LET c == ccall[p]
           stored == contacts[c.contact]
       IN  IF stored = NoContactDoc \/ stored.owner # c.user
           THEN /\ ContactReturn(p, Responded(c, "Contact not found"), NullContact)
                /\ UNCHANGED <<contacts, lists, referral>>
           ELSE /\ contacts' = [contacts EXCEPT ![c.contact] = NoContactDoc]
                /\ referral' = [referral EXCEPT ![c.contact] = NoReferral]
                /\ lists' = ListsAfterDelete(lists, c.contact)
                /\ ContactReturn(p, Responded(c, "ok"),
                                 [id |-> c.contact, owner |-> stored.owner,
                                  defaultLists |-> stored.defaultLists])
    /\ UNCHANGED <<cnops, failures, tz, now, shareVars, codeVars>>

\* contact.addReferral(req.body.referredTo) up to the end of its first save:
\* the includes test on the contact found, the push, await this.save() (the
\* $push on referrals) and the post-save hook.  When the referral is there
\* already the route responds at once.
addReferral(p) ==
    /\ cpc[p] = "save_referrals"
    /\ LET c == ccall[p]
           doc == cdoc[p]
       IN  IF c.referredTo \in Range(referral[doc.id].referrals)
           THEN /\ ContactReturn(p, Responded(c, "ok"), doc)
                /\ UNCHANGED referral
           ELSE IF contacts[doc.id] = NoContactDoc
           THEN /\ ContactReturn(p, Responded(c, "DocumentNotFoundError"), doc)
                /\ UNCHANGED referral
           ELSE /\ referral' = [referral EXCEPT ![doc.id].referrals = Append(@, c.referredTo)]
                /\ PostSave(p, [c EXCEPT !.saves = 1], doc)
    /\ UNCHANGED <<contacts, lists, cnops, failures, tz, now, shareVars, codeVars>>

\* mongoose.model('Contact').findById(referredContactId) finds a document:
\* the owner is no part of the query.
FindReferredById(id) == id \in ContactIds /\ contacts[id] # NoContactDoc

\* await mongoose.model('Contact').findById(referredContactId) of addReferral
\* and referredContact.referredToBy = this._id; without a document found the
\* route responds.
FindReferred(p) ==
    /\ cpc[p] = "find_referred"
    /\ LET c == ccall[p]
           r == c.referredTo
       IN  IF FindReferredById(r)
           THEN /\ cdoc' = [cdoc EXCEPT ![p] =
                               [id |-> r, owner |-> contacts[r].owner,
                                defaultLists |-> contacts[r].defaultLists]]
                /\ cpc' = [cpc EXCEPT ![p] = "save_referred"]
                /\ UNCHANGED ccall
           ELSE ContactReturn(p, Responded(c, "ok"), cdoc[p])
    /\ UNCHANGED <<contacts, lists, cnops, failures, tz, now, referral, shareVars, codeVars>>

\* await referredContact.save() of addReferral: the $set of referredToBy on
\* the referred contact, and the post-save hook on that contact.
SaveReferred(p) ==
    /\ cpc[p] = "save_referred"
    /\ LET c == ccall[p]
           doc == cdoc[p]
       IN  IF contacts[doc.id] = NoContactDoc
           THEN /\ ContactReturn(p, Responded(c, "DocumentNotFoundError"), doc)
                /\ UNCHANGED referral
           ELSE /\ referral' = [referral EXCEPT ![doc.id].referredToBy = c.contact]
                /\ PostSave(p, [c EXCEPT !.saves = 2], doc)
    /\ UNCHANGED <<contacts, lists, cnops, failures, tz, now, shareVars, codeVars>>

\* -------------------------------------------- ownership: behaviours
\* DELETE /contacts/:id.
DeleteContactCalls ==
    { NewContactCall("deleteContact", u, c, "none", NoItem, "none") :
        u \in ContactOwners, c \in ContactIds }

\* POST /contacts/:id/referrals with the id of any contact as referredTo.
ReferralCalls ==
    { [NewContactCall("addReferral", u, c, "none", NoItem, "none") EXCEPT !.referredTo = r] :
        u \in ContactOwners, c \in ContactIds, r \in ContactIds }

\* POST /contacts/:id/tasks with a task.
TaskCalls ==
    { NewContactCall("addTask", u, c, "task", [NoItem EXCEPT !.title = "t"], "none") :
        u \in ContactOwners, c \in ContactIds }

\* The requests of the contact routes on stored contacts, one after the
\* other.
OwnershipNext ==
    \E p \in Procs :
        \/ /\ NoContactRequestRunning
           /\ ContactStart(p, DeleteContactCalls \cup ReferralCalls \cup UpdateCalls \cup TaskCalls)
        \/ FindContact(p)
        \/ deleteContact(p)
        \/ addReferral(p)
        \/ FindReferred(p)
        \/ SaveReferred(p)
        \/ ContactSave(p)
        \/ SaveDefaultList(p)
        \/ UpdateDefaultLists(p)
        \/ FindDefaultList(p)
        \/ addItem(p)

SpecOwnership == InitContacts /\ [][OwnershipNext]_vars

\* ------------------------------------------------ items and alarms: actions
\* this.items.id(itemId) finds a subdocument.
ItemExists(list, itemId) == itemId \in 1..Len(list.items)

\* !item.completedAt of updateItem.
NotCompletedYet(item) == item.completedAt = NoDate

\* The synchronous part of List.updateItem on the item found:
\* Object.assign(item, updateData), then the completion stamp.
AssignUpdate(item, updateData) ==
    LET assigned ==
            [item EXCEPT !.status = IF updateData.status = Absent THEN @ ELSE updateData.status[1],
                         !.completedAt = IF updateData.completedAt = Absent
                                         THEN @ ELSE updateData.completedAt[1]]
    IN  IF updateData.status = Present("completed") /\ NotCompletedYet(assigned)
        THEN [assigned EXCEPT !.completedAt = now]
        ELSE assigned

\* PUT /contacts/:id/:listType/:itemId after the contact was found:
\* await List.findById(contact.defaultLists[listType]) and its 404, then
\* list.updateItem(itemId, req.body) up to its save.
updateItem(p) ==
    /\ cpc[p] = "find_item_list"
    /\ LET c == ccall[p]
           t == CHOOSE k \in 1..3 : DefaultListTypes[k] = c.listType
           ref == cdoc[p].defaultLists[DefaultListFields[t]]
       IN  IF ~ListExists(ref)
           THEN ContactReturn(p, Responded(c, "List not found"), cdoc[p])
           ELSE IF ~ItemExists(lists[ref], c.itemId)
           THEN ContactReturn(p, Responded([c EXCEPT !.list = ref], "Item not found"), cdoc[p])
           ELSE /\ ccall' = [ccall EXCEPT ![p] =
                                [c EXCEPT !.list = ref,
                                          !.edited = AssignUpdate(lists[ref].items[c.itemId], c.update)]]
                /\ cpc' = [cpc EXCEPT ![p] = "save_update"]
                /\ UNCHANGED cdoc
    /\ UNCHANGED <<contacts, lists, cnops, failures, tz, now, referral, shareVars, codeVars>>

\* PUT /contacts/:contactId/lists/:listId/items/:itemId up to its save:
\* await List.findOne({ _id: listId, owner: req.userId }), the two 404s, and
\* the assignment of the fields of the body to the item.  Of the fields
\* modelled the route assigns status only.
putItem(p) ==
    /\ cpc[p] = "find_own_list"
    /\ LET c == ccall[p]
       IN  IF ~(ListExists(c.list) /\ lists[c.list].owner = c.user)
           THEN ContactReturn(p, Responded(c, "List not found"), cdoc[p])
           ELSE IF ~ItemExists(lists[c.list], c.itemId)
           THEN ContactReturn(p, Responded(c, "Item not found"), cdoc[p])
           ELSE /\ ccall' = [ccall EXCEPT ![p].edited =
                                [lists[c.list].items[c.itemId] EXCEPT
                                    !.status = IF c.update.status = Absent
                                               THEN @ ELSE c.update.status[1]]]
                /\ cpc' = [cpc EXCEPT ![p] = "save_update"]
                /\ UNCHANGED cdoc
    /\ UNCHANGED <<contacts, lists, cnops, failures, tz, now, referral, shareVars, codeVars>>

\* List.triggerAlarm(itemId, alarmId) up to its save, on the list document the
\* caller has loaded: the two throws, alarm.isTriggered = true and
\* alarm.triggeredAt = Date.now().
triggerAlarm(p) ==
    /\ cpc[p] = "trigger_alarm"
    /\ LET c == ccall[p]
       IN  IF ~ListExists(c.list)
           THEN ContactReturn(p, Responded(c, "List not found"), cdoc[p])
           ELSE IF ~ItemExists(lists[c.list], c.itemId)
           THEN ContactReturn(p, Responded(c, "Item not found"), cdoc[p])
           ELSE IF c.alarmId \notin 1..Len(lists[c.list].items[c.itemId].alarms)
           THEN ContactReturn(p, Responded(c, "Alarm not found"), cdoc[p])
           ELSE /\ ccall' = [ccall EXCEPT ![p].edited =
                                [lists[c.list].items[c.itemId] EXCEPT
                                    !.alarms[c.alarmId] =
                                        [@ EXCEPT !.isTriggered = TRUE,
                                                  !.triggeredAt = now]]]
                /\ cpc' = [cpc EXCEPT ![p] = "save_update"]
                /\ UNCHANGED cdoc
    /\ UNCHANGED <<contacts, lists, cnops, failures, tz, now, referral, shareVars, codeVars>>

\* await this.save() of updateItem and triggerAlarm, await list.save() of the
\* list route: the $set of the item's changed paths, and the response.
SaveItem(p) ==
    /\ cpc[p] = "save_update"
    /\ LET c == ccall[p]
       IN  IF ~ListExists(c.list)
           THEN /\ ContactReturn(p, Responded(c, "DocumentNotFoundError"), cdoc[p])
                /\ UNCHANGED lists
           ELSE /\ lists' = [lists EXCEPT ![c.list].items[c.itemId] = c.edited]
                /\ ContactReturn(p, Responded(c, "ok"), cdoc[p])
    /\ UNCHANGED <<contacts, cnops, failures, tz, now, referral, shareVars, codeVars>>

\* --------------------------------------------- items and alarms: behaviours
\* The item data a caller may post with a due date shortly after the start of
\* daylight-saving time or well after it, alarms of its own, and a status.
DueDates == {NoDate, DstStart + 10, DstStart + 100}
SuppliedAlarms == {<<>>, <<[triggerTime |-> 50, type |-> "email"]>>}

AlarmItemInputs ==
    { [NoItem EXCEPT !.title = "t", !.dueDate = d, !.alarms = a, !.status = st] :
        d \in DueDates, a \in SuppliedAlarms, st \in {"pending", "completed"} }

\* The update data a caller may put.
UpdateInputs ==
    { [status |-> Present("completed"), completedAt |-> Absent],
      [status |-> Present("pending"), completedAt |-> Absent],
      [status |-> Absent, completedAt |-> Present(1)] }

\* POST /contacts/:id/tasks with the item data above.
AddTaskCalls ==
    { NewContactCall("addTask", u, c, "task", i, "none") :
        u \in ContactOwners, c \in ContactIds, i \in AlarmItemInputs }

\* The _ids of the default tasks lists in the store.
TasksLists == { l \in 1..Len(lists) : lists[l].isDefault /\ lists[l].listType = "task" }

\* The requests on the first item of a default tasks list: the two update
\* routes and the alarm sweep's triggerAlarm.
ItemUpdateCalls ==
    { [NewContactCall("updateItem", u, c, "task", NoItem, "none") EXCEPT !.itemId = 1, !.update = d] :
        u \in ContactOwners, c \in ContactIds, d \in UpdateInputs }
    \cup { [NewContactCall("putItem", u, NoContact, "task", NoItem, "none") EXCEPT
                !.list = l, !.itemId = 1, !.update = d] :
             u \in ContactOwners, l \in TasksLists, d \in UpdateInputs }
    \cup { [NewContactCall("triggerAlarm", NoUser, NoContact, "task", NoItem, "none") EXCEPT
                !.list = l, !.itemId = 1, !.alarmId = a] :
             l \in TasksLists, a \in 1..2 }

\* The store after u1 created contact c1 and u2 contact c2, in a host of
\* either time zone; the tasks list of c2 has its default alarm switched off,
\* and a task with a due date may have been added to the tasks list of c1.
InitAlarms ==
    /\ cpc = [p \in Procs |-> "idle"]
    /\ cdoc = [p \in Procs |-> NullContact]
    /\ ccall = [p \in Procs |-> NoContactCall]
    /\ cnops = 0
    /\ failures = 0
    /\ now = 1
    /\ tz \in TimeZones
    /\ contacts = [c \in ContactIds |->
                      [owner |-> IF c = "c1" THEN "u1" ELSE "u2",
                       defaultLists |-> IF c = "c1"
                                        THEN [tasks |-> 1, meetings |-> 2, transactions |-> 3]
                                        ELSE [tasks |-> 4, meetings |-> 5, transactions |-> 6]]]
    /\ referral = [c \in ContactIds |-> NoReferral]
    /\ \E seeded \in BOOLEAN :
          LET made == SeedLists("c1", "u1") \o SeedLists("c2", "u2")
              item == [NoItem EXCEPT !.title = "t", !.dueDate = DstStart + 100]
          IN  lists = [made EXCEPT ![1].items = IF seeded
                                                THEN <<StoredItem(made[1], item, "c1")>>
                                                ELSE <<>>,
                                   ![4].settings.defaultAlarmTime = 0]
    /\ SharingIdle
    /\ NoCodeCalls

AlarmsNext ==
    \E p \in Procs :
        \/ NoContactRequestRunning /\ ContactStart(p, AddTaskCalls \cup ItemUpdateCalls)
        \/ FindContact(p)
        \/ FindDefaultList(p)
        \/ addItem(p)
        \/ updateItem(p)
        \/ putItem(p)
        \/ triggerAlarm(p)
        \/ SaveItem(p)

SpecAlarms == InitAlarms /\ [][AlarmsNext]_vars

\* ------------------------------------------------- share code utility
\* Math.floor(Math.random() * length) in the utility functions: the lowest
\* and the highest index.
Draw(length) == {0, length - 1}

\* String.prototype.includes for a one-character argument.
Includes(alphabet, ch) == \E i \in 1..Len(alphabet) : alphabet[i] = ch

\* generateCode(): the codes it can return.
generateCode ==
    { <<consonants[d1 + 1], vowels[d2 + 1], consonants[d3 + 1], vowels[d4 + 1], consonants[d5 + 1]>> :
        d1 \in Draw(Len(consonants)), d2 \in Draw(Len(vowels)),
        d3 \in Draw(Len(consonants)), d4 \in Draw(Len(vowels)),
        d5 \in Draw(Len(consonants)) }

\* isValidCode(code): upperCode[k] is the k-th character of the uppercased
\* string (0-based in the source).
isValidCode(code) ==
    IF code = <<>> \/ Len(code) # 5
    THEN FALSE
    ELSE LET upperCode == toUpperCase(code)
         IN  /\ Includes(consonants, upperCode[1])
             /\ Includes(vowels, upperCode[2])
             /\ Includes(consonants, upperCode[3])
             /\ Includes(vowels, upperCode[4])
             /\ Includes(consonants, upperCode[5])

\* The strings the fill loop of generateWithPrefix can append for
\* remainingLength positions: a consonant at even i, a vowel at odd i.
Fills(remainingLength) ==
    LET fills[n \in 0..remainingLength] ==
            IF n = 0 THEN {<<>>}
            ELSE { f \o <<ch>> :
                     f \in fills[n - 1],
                     ch \in IF (n - 1) % 2 = 0
                            THEN { consonants[d + 1] : d \in Draw(Len(consonants)) }
                            ELSE { vowels[d + 1] : d \in Draw(Len(vowels)) } }
    IN  fills[remainingLength]

\* generateWithPrefix(prefix): the results it can produce.
generateWithPrefix(prefix) ==
    LET remainingLength == 5 - Len(prefix)
    IN  IF remainingLength < 3
        THEN { ThrownError("Prefix too long, must leave at least 3 characters") }
        ELSE { Returned(toUpperCase(prefix) \o f) : f \in Fills(remainingLength) }

\* The strings the functions are applied to: up to MaxLen characters, each an
\* upper-case consonant, a lower-case vowel, a digit or one of the two
\* characters with a two-character upper case.
MaxLen == 6
InputChars == {"B", "a", "1", SharpS, LigatureFi}
StringInputs == UNION { [1..n -> InputChars] : n \in 0..MaxLen }

InitCodes ==
    /\ fn = "none"
    /\ arg \in StringInputs
    /\ ret = NoResult
    /\ count = 0
    /\ codes = <<>>
    /\ NoContactRequests
    /\ contacts = [c \in ContactIds |-> NoContactDoc]
    /\ referral = [c \in ContactIds |-> NoReferral]
    /\ lists = <<>>
    /\ SharingIdle

CallGenerateCode ==
    /\ fn = "none"
    /\ arg = <<>>
    /\ fn' = "generateCode"
    /\ \E code \in generateCode : ret' = Returned(code)
    /\ UNCHANGED <<arg, count, codes, shareVars, contactVars>>

CallIsValidCode ==
    /\ fn = "none"
    /\ fn' = "isValidCode"
    /\ ret' = ReturnedBool(isValidCode(arg))
    /\ UNCHANGED <<arg, count, codes, shareVars, contactVars>>

CallGenerateWithPrefix ==
    /\ fn = "none"
    /\ fn' = "generateWithPrefix"
    /\ \E r \in generateWithPrefix(arg) : ret' = r
    /\ UNCHANGED <<arg, count, codes, shareVars, contactVars>>

CodesNext == CallGenerateCode \/ CallIsValidCode \/ CallGenerateWithPrefix

SpecCodes == InitCodes /\ [][CodesNext]_vars

\* ------------------------------------------------------- generateBatch
\* Number of distinct codes the random source yields to generateBatch: the
\* first draw of a code takes MaxCodes values, the other four draws yield
\* index 0.
MaxCodes == 5

\* generateCode() as generateBatch calls it: the codes it can return.
BatchCodes ==
    { <<consonants[d1 + 1], vowels[1], consonants[1], vowels[1], consonants[1]>> :
        d1 \in 0..(Min(MaxCodes, Len(consonants)) - 1) }

\* getTotalPossibleCodes(): the number of codes generateCode can return.
getTotalPossibleCodes == Cardinality(BatchCodes)


\* An array in place of the Set: every code drawn is kept.
ArrayPush(set, code) == Append(set, code)

\* Set.prototype.add: the set keeps insertion order and ignores a value it holds.
SetAdd(set, code) == IF code \in Range(set) THEN set ELSE Append(set, code)

\* What generateBatch returned: an array of codes.
ReturnedArray(array) == [NoResult EXCEPT !.kind = "array", !.value = array]

\* No share code utility function is running or has run; the sharing protocol
\* and the contact routes are idle on empty collections.
InitBatch ==
    /\ NoCodeCalls
    /\ NoContactRequests
    /\ contacts = [c \in ContactIds |-> NoContactDoc]
    /\ referral = [c \in ContactIds |-> NoReferral]
    /\ lists = <<>>
    /\ SharingIdle

\* generateBatch(n) is called: const codes = new Set().  The counts offered go
\* one past the number of codes there are.
CallGenerateBatch(n) ==
    /\ fn = "none"
    /\ fn' = "generateBatch"
    /\ count' = n
    /\ codes' = <<>>
    /\ UNCHANGED <<arg, ret, shareVars, contactVars>>

\* One pass of while (codes.size < count) in which generateCode() returns
\* code: codes.add(code).
BatchAdd(code) ==
    /\ fn = "generateBatch"
    /\ ret = NoResult
    /\ Len(codes) < count
    /\ codes' = SetAdd(codes, code)
    /\ UNCHANGED <<fn, arg, ret, count, shareVars, contactVars>>

\* The exit of the loop: return Array.from(codes).
BatchReturn ==
    /\ fn = "generateBatch"
    /\ ret = NoResult
    /\ ~(Len(codes) < count)
    /\ ret' = ReturnedArray(codes)
    /\ UNCHANGED <<fn, arg, count, codes, shareVars, contactVars>>

BatchNext ==
    \/ \E n \in 0..(getTotalPossibleCodes + 1) : CallGenerateBatch(n)
    \/ \E code \in BatchCodes : BatchAdd(code)
    \/ BatchReturn

SpecBatch == InitBatch /\ [][BatchNext]_vars

\* The random source eventually yields every code, and the loop goes on while
\* it can.
FairSpecBatch ==
    /\ SpecBatch
    /\ \A code \in BatchCodes : WF_vars(BatchAdd(code))
    /\ WF_vars(BatchReturn)

\* ================================================================ properties
\* Number of ShareGrants for grantee g stored on owner o, and of AccessRecords
\* for code stored on requester r.
GrantsFor(o, g) ==
    Cardinality({ i \in 1..Len(db[o].sharedWith) : db[o].sharedWith[i].userId = g })

RecordsFor(r, code) ==
    Cardinality({ i \in 1..Len(db[r].accessingViaCode) : db[r].accessingViaCode[i].code = code })

Finished(p, op) == call[p].op = op /\ call[p].status = "ok"

\* C1: under every interleaving of the existence checks and the saves of
\* concurrent code-issuing calls, no two accounts hold the same share code.
ShareCodesPairwiseDistinct ==
    \A u, v \in Users : (u # v /\ db[u].shareCode # NoCode) => db[u].shareCode # db[v].shareCode

\* Two generateUserShareCode calls on distinct accounts have both generated and
\* saved a code.
TwoAccountsIssued ==
    \E p, q \in Procs :
        /\ p # q
        /\ Finished(p, "generateUserShareCode") /\ Finished(q, "generateUserShareCode")
        /\ call[p].user # call[q].user
        /\ call[p].saves = 1 /\ call[q].saves = 1
        /\ db[call[p].user].shareCode = call[p].retCode
        /\ db[call[q].user].shareCode = call[q].retCode

\* C2: a share code, once assigned, never changes, and no other account is
\* given it while it is assigned.
ShareCodeNeverChanges ==
    [][\A u \in Users :
          db[u].shareCode # NoCode =>
              /\ db'[u].shareCode = db[u].shareCode
              /\ \A v \in Users \ {u} : db'[v].shareCode # db[u].shareCode]_vars

\* C3: with calls made one after the other, every completed redemption, the
\* first by a requester as well as a repeated one, leaves exactly one
\* AccessRecord for the code on the requester and exactly one ShareGrant for
\* the requester on the owner it returned.
RedemptionIdempotent ==
    \A p \in Procs :
        Finished(p, "accessDataViaCode") =>
            /\ RecordsFor(call[p].user, toUpperCase(call[p].code)) = 1
            /\ GrantsFor(call[p].retOwner, call[p].user) = 1

\* The same requester has redeemed the same code twice; the second call found
\* the record and the grant of the first.
RedeemedTwice ==
    \E p, q \in Procs :
        /\ p # q
        /\ Finished(p, "accessDataViaCode") /\ Finished(q, "accessDataViaCode")
        /\ call[p].user = call[q].user
        /\ toUpperCase(call[p].code) = toUpperCase(call[q].code)
        /\ call[p].alreadyAccessing = "no" /\ call[p].alreadyShared = "no"
        /\ call[q].alreadyAccessing = "yes" /\ call[q].alreadyShared = "yes"

\* C4: an owner's sharedWith holds at most one entry per grantee, also when
\* shareWith / accessViaCode calls run concurrently on separately loaded copies
\* of the owner.
AtMostOneGrantPerGrantee == \A o, g \in Users : GrantsFor(o, g) <= 1

\* C5: with calls made one after the other, a redemption by a requester that
\* had no record of the code and no grant from the owner leaves exactly one
\* grant for the requester on the owner, of level 'view', and exactly one
\* AccessRecord with that code on the requester, naming the owner.
BidirectionalGrant ==
    \A p \in Procs :
        (/\ Finished(p, "accessDataViaCode")
         /\ call[p].alreadyAccessing = "no"
         /\ call[p].alreadyShared = "no") =>
            LET R == call[p].user
                O == call[p].retOwner
                X == toUpperCase(call[p].code)
            IN  /\ GrantsFor(O, R) = 1
                /\ \A i \in 1..Len(db[O].sharedWith) :
                      db[O].sharedWith[i].userId = R => db[O].sharedWith[i].accessLevel = "view"
                /\ RecordsFor(R, X) = 1
                /\ \E i \in 1..Len(db[R].accessingViaCode) :
                      db[R].accessingViaCode[i] = [code |-> X, ownerId |-> O]

\* A first redemption of another account's code, presented in lower case, has
\* completed.
FirstRedemptionDone ==
    \E p \in Procs :
        /\ Finished(p, "accessDataViaCode")
        /\ call[p].alreadyAccessing = "no" /\ call[p].alreadyShared = "no"
        /\ call[p].retOwner # call[p].user
        /\ call[p].code # toUpperCase(call[p].code)
        /\ db[call[p].retOwner].shareCode = toUpperCase(call[p].code)

\* C6: when two different requesters have redeemed the same code of the same
\* owner, under any interleaving, the owner holds a grant for each of them and
\* each of them holds a record of the code; when these two calls are the only
\* ones made, there is exactly one of each and the owner holds no other grant.
ConcurrentRedemptionSafe ==
    \A p, q \in Procs :
        (/\ p # q
         /\ Finished(p, "accessDataViaCode") /\ Finished(q, "accessDataViaCode")
         /\ call[p].user # call[q].user
         /\ call[p].retOwner = call[q].retOwner
         /\ toUpperCase(call[p].code) = toUpperCase(call[q].code)) =>
            LET O == call[p].retOwner
                X == toUpperCase(call[p].code)
            IN  /\ GrantsFor(O, call[p].user) >= 1 /\ GrantsFor(O, call[q].user) >= 1
                /\ RecordsFor(call[p].user, X) >= 1 /\ RecordsFor(call[q].user, X) >= 1
                /\ nops = 2 =>
                      /\ GrantsFor(O, call[p].user) = 1 /\ GrantsFor(O, call[q].user) = 1
                      /\ Len(db[O].sharedWith) = 2
                      /\ RecordsFor(call[p].user, X) = 1 /\ RecordsFor(call[q].user, X) = 1

\* Two different requesters, neither of them the owner, have both redeemed the
\* owner's code.
TwoRequestersRedeemed ==
    \E p, q \in Procs :
        /\ p # q
        /\ Finished(p, "accessDataViaCode") /\ Finished(q, "accessDataViaCode")
        /\ call[p].user # call[q].user
        /\ call[p].retOwner = call[q].retOwner
        /\ call[p].retOwner \notin {call[p].user, call[q].user}
        /\ toUpperCase(call[p].code) = toUpperCase(call[q].code)
        /\ call[p].saves = 2 /\ call[q].saves = 2

\* C7: when generateUserShareCode is called twice on the same account, one call
\* after the other and nothing else, both calls return the same code, which is
\* the account's stored code, and at most one of them saved the account.
EnsureShareCodeIdempotent ==
    \A p, q \in Procs :
        (/\ p # q
         /\ nops = 2
         /\ Finished(p, "generateUserShareCode") /\ Finished(q, "generateUserShareCode")
         /\ call[p].user = call[q].user) =>
            /\ call[p].retCode = call[q].retCode
            /\ call[p].retCode # NoCode
            /\ db[call[p].user].shareCode = call[p].retCode
            /\ call[p].saves + call[q].saves <= 1

\* The account had no code: the first call generated and saved one, the second
\* returned it without a save.
EnsuredTwice ==
    \E p, q \in Procs :
        /\ p # q
        /\ nops = 2
        /\ Finished(p, "generateUserShareCode") /\ Finished(q, "generateUserShareCode")
        /\ call[p].user = call[q].user
        /\ call[p].saves = 1 /\ call[q].saves = 0

\* C8: a code-issuing call generates at most maxAttempts candidates: when every
\* candidate is taken it fails after maxAttempts of them instead of going on.
RetryLoopBounded == \A p \in Procs : attempts[p] <= maxAttempts

\* C9: no code-issuing call ends with the duplicate-key violation of its save:
\* the violation makes it try another candidate.
DuplicateKeyIsRetried == \A p \in Procs : call[p].status # "E11000 duplicate key"

\* C10: accessViaCode with a code whose uppercase form is no account's share
\* code throws 'Invalid share code', and no step of that call changes any
\* stored document.
InvalidCodeChangesNothing ==
    [][\A p \in Procs :
          (call[p].op = "accessDataViaCode" /\ pc'[p] # pc[p]) =>
              /\ pc[p] = "load" => db' = db
              /\ (pc[p] = "find_owner" /\ HoldersOf(toUpperCase(call[p].code)) = {}) =>
                    /\ call'[p].status = "Invalid share code"
                    /\ pc'[p] = "idle"
                    /\ db' = db]_vars

\* A redemption has failed with 'Invalid share code' while another account
\* holds a different code.
InvalidCodeRejected ==
    \E p \in Procs :
        /\ call[p].op = "accessDataViaCode"
        /\ call[p].status = "Invalid share code"
        /\ \E u \in Users : db[u].shareCode # NoCode

\* ------------------------------------------------ default lists: properties
\* The _ids of the default lists of category DefaultListTypes[t] that the
\* lists collection ls holds for contact c.
DefaultListsOf(ls, c, t) ==
    { l \in 1..Len(ls) :
        /\ ls[l].isDefault
        /\ ls[l].contactOwner = c
        /\ ls[l].listType = DefaultListTypes[t] }

\* The t-th default-list reference of a contact document.
Ref(doc, t) == doc.defaultLists[DefaultListFields[t]]

\* The request of slot p responds with success in this step.
RespondsOk(p) == cpc[p] # "idle" /\ cpc'[p] = "idle" /\ ccall'[p].status = "ok"

AllPopulated(defaultLists) ==
    /\ defaultLists.tasks # NoList
    /\ defaultLists.meetings # NoList
    /\ defaultLists.transactions # NoList

\* C11: when the save of a new contact, post-save hook included, returns, the
\* contact's three default-list references are non-null and each names an
\* existing list with isDefault, the contact's owner, the contact as
\* contactOwner, and the category of the reference.
DefaultListsComplete ==
    [][\A p \in Procs :
          (ccall[p].op = "createContact" /\ RespondsOk(p)) =>
              LET c == ccall'[p].contact
              IN  \A t \in 1..3 :
                     LET ref == Ref(contacts'[c], t)
                     IN  /\ ref # NoList
                         /\ ref \in 1..Len(lists')
                         /\ lists'[ref] # DeletedList
                         /\ lists'[ref].isDefault
                         /\ lists'[ref].owner = contacts'[c].owner
                         /\ lists'[ref].contactOwner = c
                         /\ lists'[ref].listType = DefaultListTypes[t]]_vars

\* C12: when POST /contacts or POST /contacts/import has returned with
\* success, every contact it created has exactly one default list of each of
\* the three categories.
EveryContactHasDefaultLists ==
    [][\A p \in Procs :
          (ccall[p].op \in {"createContact", "importContacts"} /\ RespondsOk(p)) =>
              \A c \in ccall'[p].batch \cup ({ccall'[p].contact} \ {NoContact}) :
                 \A t \in 1..3 : Cardinality(DefaultListsOf(lists', c, t)) = 1]_vars

\* C13: in no state does a stored contact have the default lists of only one
\* or two of the three categories, or only one or two of its three references
\* populated.
DefaultListsAtomic ==
    \A c \in ContactIds :
        contacts[c] # NoContactDoc =>
            /\ Cardinality({ t \in 1..3 : DefaultListsOf(lists, c, t) # {} }) \in {0, 3}
            /\ Cardinality({ t \in 1..3 : Ref(contacts[c], t) # NoList }) \in {0, 3}

\* C14: when a contact with its tasks reference populated and its meetings and
\* transactions references null has been saved again, the save has created
\* exactly the meetings list and the transactions list, both references are
\* populated with them, and the tasks reference is the one it was.
PartialRecovery ==
    \A p \in Procs :
        (/\ ccall[p].op = "updateContact"
         /\ ccall[p].status = "ok"
         /\ ~ccall[p].caught
         /\ ccall[p].argLists.tasks # NoList
         /\ ccall[p].argLists.meetings = NoList
         /\ ccall[p].argLists.transactions = NoList) =>
            LET c == ccall[p].contact
                made == ccall[p].created
            IN  /\ Len(made) = 2
                /\ made[1] \in DefaultListsOf(lists, c, 2)
                /\ made[2] \in DefaultListsOf(lists, c, 3)
                /\ contacts[c].defaultLists =
                      [tasks |-> ccall[p].argLists.tasks, meetings |-> made[1],
                       transactions |-> made[2]]

\* C15: the save of a contact document whose three references are populated
\* creates no list, changes no stored contact and returns at once.
SaveOfCompleteContactIsNoOp ==
    [][\A p \in Procs :
          (/\ cpc[p] = "save_contact"
           /\ cpc'[p] # cpc[p]
           /\ AllPopulated(cdoc[p].defaultLists)) =>
              /\ lists' = lists
              /\ contacts' = contacts
              /\ cpc'[p] = "idle"
              /\ ccall'[p].status = "ok"
              /\ ccall'[p].created = <<>>
              /\ ccall'[p].retLists = cdoc[p].defaultLists]_vars

\* A contact that has its three lists was saved again through the update
\* route, while the other contact went through the hook.
CompleteContactSavedAgain ==
    \E p \in Procs :
        /\ ccall[p].op = "updateContact"
        /\ ccall[p].status = "ok"
        /\ ccall[p].hook = "skipped"
        /\ AllPopulated(ccall[p].argLists)
        /\ contacts[ccall[p].contact].defaultLists = ccall[p].argLists
        /\ \E q \in Procs \ {p} : ccall[q].hook = "ran"

\* C16: for every contact and category, at most one default list exists.
AtMostOneDefaultListPerCategory ==
    \A c \in ContactIds : \A t \in 1..3 : Cardinality(DefaultListsOf(lists, c, t)) <= 1

\* C17: no step of addTask, addMeeting or addTransaction creates a list or
\* changes a contact; when the contact's reference for the category names no
\* existing list the call fails with 'Default ... list not found' and no list
\* changes; when it names one, the item, with a title, is appended to that
\* list and no other, with relatedContact the contact's id.
AddItemUsesDefaultList ==
    [][\A p \in Procs :
          (ccall[p].op \in {"addTask", "addMeeting", "addTransaction"} /\ cpc'[p] # cpc[p]) =>
              LET c == ccall[p]
                  t == CHOOSE k \in 1..3 : AddItemOps[k] = c.op
                  ref == Ref(contacts[c.contact], t)
              IN  /\ contacts' = contacts
                  /\ Len(lists') = Len(lists)
                  /\ cpc[p] = "find_contact" => lists' = lists
                  /\ cpc[p] = "find_list" =>
                        /\ lists' = lists
                        /\ ~ListExists(ref) =>
                              /\ cpc'[p] = "idle"
                              /\ ccall'[p].status = "Default list not found"
                        /\ ListExists(ref) => cpc'[p] = "save_item"
                  /\ (cpc[p] = "save_item" /\ c.item.title # NoTitle) =>
                        /\ ListExists(ref)
                        /\ lists[ref].listType = DefaultListTypes[t]
                        /\ ccall'[p].status = "ok"
                        /\ Len(lists'[ref].items) = Len(lists[ref].items) + 1
                        /\ lists'[ref].items[Len(lists'[ref].items)].relatedContact = c.contact
                        /\ lists'[ref].items[Len(lists'[ref].items)].title = c.item.title
                        /\ \A l \in 1..Len(lists) :
                              /\ l # ref => lists'[l] = lists[l]
                              /\ \A i \in 1..Len(lists[l].items) :
                                    lists'[l].items[i] = lists[l].items[i]]_vars

\* One call failed on a contact without the reference; another appended an
\* item that named a different relatedContact to the default list of its
\* contact.
ItemAddedAndListMissing ==
    \E p, q \in Procs :
        /\ ccall[p].op \in {"addTask", "addMeeting", "addTransaction"}
        /\ ccall[p].status = "Default list not found"
        /\ ccall[q].op \in {"addTask", "addMeeting", "addTransaction"}
        /\ ccall[q].status = "ok"
        /\ ccall[q].item.relatedContact \notin {NoContact, ccall[q].contact}
        /\ ListExists(ccall[q].list)
        /\ Len(lists[ccall[q].list].items) = 1
        /\ lists[ccall[q].list].items[1].relatedContact = ccall[q].contact

\* C18: a request in whose post-save hook a store operation failed does not
\* respond with success.
HookErrorsReachCaller ==
    \A p \in Procs : ccall[p].caught => ccall[p].status # "ok"

\* ------------------------------------------------- share code utility: properties
\* The upper case of the character at position i of s is one character of the
\* alphabet of position i.
InAlphabet(s, i) ==
    LET upper == UpperString(s[i])
    IN  Len(upper) = 1 /\ Includes(IF i % 2 = 1 THEN consonants ELSE vowels, upper[1])

\* C19: every code generateCode returns satisfies isValidCode; isValidCode is
\* false for every string that is not of length 5 or that has a position whose
\* uppercased character is outside the position's alphabet; and isValidCode
\* gives a string and its upper case the same answer.
GrammarValidity ==
    /\ fn = "generateCode" => isValidCode(ret.value)
    /\ fn = "isValidCode" =>
          /\ ret.ok => (Len(arg) = 5 /\ \A i \in 1..5 : InAlphabet(arg, i))
          /\ ret.ok = isValidCode(toUpperCase(arg))

\* C20: generateWithPrefix throws for a prefix of 3 or more characters; for a
\* prefix of at most 2 characters it returns a string of exactly 5 characters
\* that starts with the uppercased prefix and goes on consonant, vowel,
\* consonant, ...
PrefixContract ==
    fn = "generateWithPrefix" =>
        /\ Len(arg) >= 3 => ret.kind = "error"
        /\ Len(arg) <= 2 =>
              /\ ret.kind = "value"
              /\ Len(ret.value) = 5
              /\ SubSeq(ret.value, 1, Len(arg)) = toUpperCase(arg)
              /\ \A i \in (Len(arg) + 1)..Len(ret.value) :
                    Includes(IF (i - Len(arg)) % 2 = 1 THEN consonants ELSE vowels, ret.value[i])

\* ------------------------------------------------- generateBatch: properties
\* C21: for every n from 0 up to the number of codes there are, and a random
\* source that eventually yields every code, generateBatch(n) returns; what it
\* returns is exactly n codes, pairwise distinct, each satisfying isValidCode.
BatchTerminates ==
    /\ [](ret.kind = "array" =>
            /\ Len(ret.value) = count
            /\ \A i, j \in 1..Len(ret.value) : i # j => ret.value[i] # ret.value[j]
            /\ \A i \in 1..Len(ret.value) : isValidCode(ret.value[i]))
    /\ (fn = "generateBatch" /\ count <= getTotalPossibleCodes) ~> (ret.kind = "array")

\* generateBatch has returned every code there is.
WholeCodeSpaceReturned ==
    /\ ret.kind = "array"
    /\ count = getTotalPossibleCodes
    /\ Range(ret.value) = BatchCodes
    /\ Cardinality(BatchCodes) > 1

\* ------------------------------------------------ items and alarms: properties
\* The last item of the list with _id l in the lists collection ls.
LastItem(ls, l) == ls[l].items[Len(ls[l].items)]

\* C22: the item addItem stores has the caller's alarms followed by exactly
\* one derived alarm, of trigger time dueDate minus the list's default alarm
\* lead time, when the list has a lead time and the item data a due date, and
\* exactly the caller's alarms otherwise.
AlarmDerivation ==
    [][\A p \in Procs :
          (cpc[p] = "save_item" /\ RespondsOk(p)) =>
              LET c == ccall[p]
                  lead == lists[c.list].settings.defaultAlarmTime
                  supplied == [i \in 1..Len(c.item.alarms) |-> StoredAlarm(c.item.alarms[i])]
                  derived == StoredAlarm([triggerTime |-> c.item.dueDate - lead,
                                          type |-> "notification"])
                  stored == LastItem(lists', c.list)
              IN  /\ Len(lists'[c.list].items) = Len(lists[c.list].items) + 1
                  /\ IF lead # 0 /\ c.item.dueDate # NoDate
                     THEN stored.alarms = Append(supplied, derived)
                     ELSE stored.alarms = supplied]_vars

\* C23: every item whose status is 'completed' has completedAt set, and the
\* completedAt of an item, once set, is not changed by any update of the item.
CompletedAtStampedOnce ==
    [][\A l \in 1..Len(lists) : \A i \in 1..Len(lists[l].items) :
          /\ lists'[l].items[i].status = "completed" => lists'[l].items[i].completedAt # NoDate
          /\ lists[l].items[i].completedAt # NoDate =>
                lists'[l].items[i].completedAt = lists[l].items[i].completedAt]_vars

\* C24: an alarm that is triggered stays triggered, and its triggeredAt, once
\* set, is not changed, also by a second triggerAlarm on the alarm.
AlarmTriggeredOnce ==
    [][\A l \in 1..Len(lists) : \A i \in 1..Len(lists[l].items) :
          \A a \in 1..Len(lists[l].items[i].alarms) :
             LET alarm == lists[l].items[i].alarms[a]
                 after == lists'[l].items[i].alarms[a]
             IN  /\ alarm.isTriggered => after.isTriggered
                 /\ alarm.triggeredAt # NoDate => after.triggeredAt = alarm.triggeredAt]_vars

\* ------------------------------------------------------ accounts: properties
\* C25: under every sequence and interleaving of signups and profile updates,
\* no two accounts hold the same phone number.
MobileNoUnique ==
    \A u, v \in signedUp :
        (u # v /\ db[u].mobileNo # NoPhone) => db[u].mobileNo # db[v].mobileNo

\* ----------------------------------------------------- ownership: properties
\* C26: when DELETE /contacts/:id succeeds the contact is gone, the lists
\* collection is as it was, so that the default lists of the contact still
\* exist with their items and still name the contact as contactOwner, and no
\* other contact is modified.
DeleteDoesNotCascade ==
    [][\A p \in Procs :
          (cpc[p] = "delete_contact" /\ RespondsOk(p)) =>
              LET c == ccall[p].contact
              IN  /\ contacts'[c] = NoContactDoc
                  /\ lists' = lists
                  /\ \A t \in 1..Len(DefaultListTypes) :
                        /\ DefaultListsOf(lists', c, t) = DefaultListsOf(lists, c, t)
                        /\ \A l \in DefaultListsOf(lists', c, t) : lists'[l].items = lists[l].items
                  /\ \A other \in ContactIds \ {c} :
                        /\ contacts'[other] = contacts[other]
                        /\ referral'[other] = referral[other]]_vars

\* A contact was deleted by its owner after a task was added to it: its three
\* default lists are there, the tasks list with the task.
DeletedContactLeavesLists ==
    \E p \in Procs :
        /\ cpc[p] = "idle"
        /\ ccall[p].op = "deleteContact"
        /\ ccall[p].status = "ok"
        /\ contacts[ccall[p].contact] = NoContactDoc
        /\ \A t \in 1..Len(DefaultListTypes) :
              Cardinality(DefaultListsOf(lists, ccall[p].contact, t)) = 1
        /\ \E l \in DefaultListsOf(lists, ccall[p].contact, 1) : Len(lists[l].items) = 1

\* C30: no step of a request of a user changes a stored contact, or the
\* referral fields of a contact, that another user owns; the requests running
\* one at a time, the step is a step of the one request that is running.
OwnerIsolation ==
    [][\A p \in Procs : \A c \in ContactIds :
          (cpc[p] # "idle" /\ contacts[c] # NoContactDoc /\ contacts[c].owner # ccall[p].user) =>
              /\ contacts'[c] = contacts[c]
              /\ referral'[c] = referral[c]]_vars

\* ------------------------------------------------------- sharing: grants
\* The access levels of the ShareGrants for grantee g in a sharedWith array.
LevelsFor(sharedWith, g) ==
    { sharedWith[i].accessLevel : i \in { j \in 1..Len(sharedWith) : sharedWith[j].userId = g } }

\* C28: calls made one after the other, a grant that exists is not altered by
\* a further shareWith for its grantee with any level, nor by a redemption of
\* the owner's code by the grantee: every stored ShareGrant stays as it is and
\* where it is, and the owner's grants for the grantee keep the one level.
ExistingGrantNeverAltered ==
    [][\A o \in Users :
          /\ Len(db'[o].sharedWith) >= Len(db[o].sharedWith)
          /\ \A i \in 1..Len(db[o].sharedWith) : db'[o].sharedWith[i] = db[o].sharedWith[i]
          /\ \A g \in Users :
                LevelsFor(db[o].sharedWith, g) # {} =>
                    LevelsFor(db'[o].sharedWith, g) = LevelsFor(db[o].sharedWith, g)]_vars

\* Re-granting has happened: a redemption by a grantee who has an 'edit' grant
\* has returned, having found the grant, and the grant is still 'edit'.
RegrantedWithOtherLevel ==
    \E p \in Procs : \E o, g \in Users :
        /\ pc[p] = "idle"
        /\ call[p].status = "ok"
        /\ call[p].alreadyShared = "yes"
        /\ call[p].op = "accessDataViaCode"
        /\ call[p].user = g
        /\ call[p].retOwner = o
        /\ LevelsFor(db[o].sharedWith, g) = {EditAccessLevel}

\* C29: no account is its own grantee: no sharedWith holds an entry for the
\* account itself and no AccessRecord names the account itself as ownerId.
NoSelfGrant ==
    \A u \in Users :
        /\ \A i \in 1..Len(db[u].sharedWith) : db[u].sharedWith[i].userId # u
        /\ \A i \in 1..Len(db[u].accessingViaCode) : db[u].accessingViaCode[i].ownerId # u

\* C27: in every state in which no accessViaCode call is in progress, also
\* after a call that failed part-way, every AccessRecord { code, ownerId: O }
\* held by an account R is matched by an entry for R in O.sharedWith.
RedemptionConsistent ==
    (\A p \in Procs : ~(pc[p] # "idle" /\ call[p].op = "accessDataViaCode")) =>
        \A r \in Users : \A i \in 1..Len(db[r].accessingViaCode) :
            GrantsFor(db[r].accessingViaCode[i].ownerId, r) >= 1
====
